---- MODULE Spec2Model ----
(***************************************************************************)
(* Performance core of airtrafficsim (BADA mode).                          *)
(*                                                                         *)
(* Spec        the fleet registry: Performance.add_aircraft,               *)
(*             Performance.del_aircraft and the per-tick overwrite of the  *)
(*             derived outputs by Performance.cal_vs_accel, over the       *)
(*             parallel per-aircraft arrays of Performance and Bada.       *)
(* SpecConfig  Bada.update_configuration applied to one slot, its inputs   *)
(*             drawn from sample sets around every threshold.              *)
(*                                                                         *)
(* Numbers are integers.  Speeds are in knots and altitudes in feet, as in *)
(* the source; the factor C_V_MIN = 1.3 is carried as 13/10 and every      *)
(* comparison that uses it is multiplied through by 10.                    *)
(***************************************************************************)
EXTENDS Integers, Sequences, FiniteSets, TLC

VARIABLES
    drag,           \* Performance.drag   : one entry per slot
    thrust,         \* Performance.thrust : one entry per slot
    esf,            \* Performance.esf    : one entry per slot
    bada,           \* the per-aircraft arrays of Bada, by attribute name
    err,            \* exception raised by the last call, or "none"
    ret,            \* value returned by the last call
    last,           \* the last call, its arguments, and the call before it
    before,         \* the per-aircraft arrays as they were before the last call
    conf_args,      \* inputs of update_configuration for one slot
    configuration,  \* result of update_configuration, "UNSET" before the call
    call,           \* a call of one of the calculation functions: name, inputs
    result          \* what that call returned, once it has returned

vars == <<drag, thrust, esf, bada, err, ret, last, before,
          conf_args, configuration, call, result>>

fleetVars == <<drag, thrust, esf, bada, err, ret, last, before>>
confVars  == <<conf_args, configuration>>
callVars  == <<call, result>>

----------------------------------------------------------------------------
(* Bounds and input sets                                                   *)

\* Largest number of rows any per-aircraft array may reach.
MaxFleet == 2

\* ICAO codes handed to add_aircraft; "ZZZZ" has no row in SYNONYM.NEW.
IcaoCodes == {"A320", "AT72", "ZZZZ"}

\* mass_class arguments (rows of the APF procedures block).
MassClasses == {1, 2}

\* Per-slot outputs of one force computation, for two traffic states.
TickSamples == {[drag |-> 1, thrust |-> 1, esf |-> 0],
                [drag |-> 2, thrust |-> 1, esf |-> 1]}

----------------------------------------------------------------------------
(* Python values                                                           *)

None == [type |-> "NoneType"]

Int_(n) == [type |-> "int", value |-> n]

----------------------------------------------------------------------------
(* numpy                                                                   *)

\* np.append(arr, v) / np.append(arr, [row], axis=0): a new last row.
np_append(arr, v) == Append(arr, v)

\* The index test that also accepts the index one past the last row.
np_index_ok_one_past(arr, index) == index >= -Len(arr) /\ index <= Len(arr)

\* np.delete accepts index in -len .. len-1 and raises IndexError otherwise.
np_index_ok(arr, index) == index >= -Len(arr) /\ index < Len(arr)

\* np.delete that drops the last row, whatever the index.
np_delete_last(arr, index) == SubSeq(arr, 1, Len(arr) - 1)

\* np.delete(arr, index[, axis=0]): the array without row `index`
\* (0-based, negative counts from the end); later rows move down by one.
np_delete(arr, index) ==
    LET p == IF index < 0 THEN index + Len(arr) ELSE index
    IN  SubSeq(arr, 1, p) \o SubSeq(arr, p + 2, Len(arr))

\* np.select(condlist, choicelist, default) for one element: the choice of
\* the first condition that is true, the default when none is.
RECURSIVE np_select_from(_, _, _, _)
np_select_from(condlist, choicelist, default, k) ==
    IF k > Len(condlist) THEN default
    ELSE IF condlist[k] THEN choicelist[k]
    ELSE np_select_from(condlist, choicelist, default, k + 1)

np_select(condlist, choicelist, default) ==
    np_select_from(condlist, choicelist, default, 1)

----------------------------------------------------------------------------
(* Floating-point numbers                                                  *)
(*                                                                         *)
(* A float is carried as an exact fraction [n, d] in lowest terms with     *)
(* d >= 0.  d = 0 holds the values a division by zero produces under       *)
(* numpy: n = 1 is inf, n = -1 is -inf and n = 0 is nan.  Rounding and the *)
(* sign of zero are not carried.                                           *)

Sgn(x) == IF x > 0 THEN 1 ELSE IF x < 0 THEN -1 ELSE 0

Abs(x) == IF x < 0 THEN -x ELSE x

RECURSIVE GCD(_, _)
GCD(a, b) == IF b = 0 THEN a ELSE GCD(b, a % b)

\* The float n/d.
Q(n, d) ==
    IF d = 0 THEN [n |-> Sgn(n), d |-> 0]
    ELSE LET g == GCD(Abs(n), Abs(d))
         IN  [n |-> (Sgn(d) * n) \div g, d |-> Abs(d) \div g]

\* The float of an integer.
QI(i) == [n |-> i, d |-> 1]

NaN == [n |-> 0, d |-> 0]

Inf == [n |-> 1, d |-> 0]

IsNaN(a) == a.d = 0 /\ a.n = 0

IsFinite(a) == a.d # 0

\* a + b: inf + inf is inf, inf + (-inf) is nan.
QAdd(a, b) ==
    IF a.d = 0 /\ b.d = 0
    THEN IF a.n = b.n THEN a ELSE NaN
    ELSE LET g == GCD(a.d, b.d)
         IN  Q(a.n * (b.d \div g) + b.n * (a.d \div g),
               (a.d \div g) * b.d)

QNeg(a) == [n |-> -a.n, d |-> a.d]

QSub(a, b) == QAdd(a, QNeg(b))

\* a * b: 0 * inf is nan.
QMul(a, b) ==
    LET x == Q(a.n, b.d)
        y == Q(b.n, a.d)
    IN  Q(x.n * y.n, x.d * y.d)

\* a / b: x / 0 is inf or -inf by the sign of x, 0 / 0 is nan.
QDiv(a, b) == QMul(a, Q(b.d, b.n))

\* np.square(a)
np_square(a) == QMul(a, a)

\* a < b; every comparison with nan is false.
QLt(a, b) ==
    IF IsNaN(a) \/ IsNaN(b) THEN FALSE
    ELSE IF a.d = 0 /\ b.d = 0 THEN a.n < b.n
    ELSE LET g == GCD(a.d, b.d)
         IN  a.n * (b.d \div g) < b.n * (a.d \div g)

\* a <= b
QLe(a, b) == ~IsNaN(a) /\ ~IsNaN(b) /\ ~QLt(b, a)

\* a == b
QEq(a, b) == ~IsNaN(a) /\ a = b

\* np.minimum(a, b); nan propagates.
np_minimum(a, b) ==
    IF IsNaN(a) \/ IsNaN(b) THEN NaN ELSE IF QLt(b, a) THEN b ELSE a

\* np.maximum(a, b); nan propagates.
np_maximum(a, b) ==
    IF IsNaN(a) \/ IsNaN(b) THEN NaN ELSE IF QLt(a, b) THEN b ELSE a

\* np.clip(a, lo, hi) = minimum(maximum(a, lo), hi).
np_clip(a, lo, hi) == np_minimum(np_maximum(a, lo), hi)

\* np.clip(a, lo, None)
np_clip_lo(a, lo) == np_maximum(a, lo)

\* np.where(cond, x, y) for one element.
np_where(cond, x, y) == IF cond THEN x ELSE y

----------------------------------------------------------------------------
(* Bada: per-aircraft arrays                                               *)

\* The per-aircraft attributes of Bada, in the order in which __init__
\* creates them, add_aircraft appends to them and del_aircraft deletes
\* from them (the three orders are the same).
BadaArrayOrder == <<
    "__n_eng", "__engine_type", "__wake_category", "__m_ref", "m_min",
    "__m_max", "__m_pyld", "v_mo", "m_mo", "__h_mo", "__h_max", "__g_w",
    "__g_t", "__S", "__c_d0_cr", "__c_d2_cr", "__c_d0_ap", "__c_d2_ap",
    "__c_d0_ld", "__c_d2_ld", "__c_d0_ldg", "__v_stall_to", "__v_stall_ic",
    "__v_stall_cr", "__v_stall_ap", "__v_stall_ld", "__c_lbo", "__k",
    "__c_tc_1", "__c_tc_2", "__c_tc_3", "__c_tc_4", "__c_tc_5",
    "__c_tdes_low", "__c_tdes_high", "__h_p_des", "__c_tdes_app",
    "__c_tdes_ld", "__v_des_ref", "__m_des_ref", "__c_f1", "__c_f2",
    "__c_f3", "__c_f4", "__c_fcr", "__tol", "__ldl", "__span", "__length",
    "__v_cl_1", "__v_cl_2", "__m_cl", "__v_cr_1", "__v_cr_2", "__m_cr",
    "__v_des_1", "__v_des_2", "__m_des", "climb_schedule", "cruise_schedule",
    "descent_schedule" >>

BadaArrays == {BadaArrayOrder[k] : k \in 1..Len(BadaArrayOrder)}

\* Attributes filled from the Airlines Procedures File row APF[mass_class].
ApfArrays == {"__v_cl_1", "__v_cl_2", "__m_cl", "__v_cr_1", "__v_cr_2",
              "__m_cr", "__v_des_1", "__v_des_2", "__m_des"}

Pos(name) == CHOOSE k \in 1..Len(BadaArrayOrder) : BadaArrayOrder[k] = name

\* SYNONYM.NEW: aircraft code -> name of its coefficient files.
SYNONYM == ("A320" :> "A320__") @@ ("AT72" :> "AT72__")

FileNo(file_name) == IF file_name = "A320__" THEN 1 ELSE 2

\* Engine type read from the OPF aircraft-type block: 'Jet': 1,
\* 'Turboprop': 2, 'Piston': 3.
OPF_Actype_engine(file_name) == IF file_name = "A320__" THEN 1 ELSE 2

\* The datum the OPF file of an aircraft holds for an attribute.  The files
\* are not part of the repository: each datum is a number that identifies
\* its file and its attribute.
OPF(file_name, name) == 1000 * FileNo(file_name) + Pos(name)

\* The datum row mass_class of the APF file holds for an attribute.
APF(file_name, mass_class, name) ==
    1000 * FileNo(file_name) + 100 * mass_class + Pos(name)

\* The row add_aircraft appends to the attribute `name`.
NewRow(file_name, mass_class, name) ==
    CASE name = "climb_schedule"   -> [j \in 1..8 |-> QI(0)]
      [] name = "cruise_schedule"  -> [j \in 1..5 |-> QI(0)]
      [] name = "descent_schedule" -> [j \in 1..8 |-> QI(0)]
      [] name = "__engine_type"    -> OPF_Actype_engine(file_name)
      [] name \in ApfArrays        -> APF(file_name, mass_class, name)
      [] OTHER                     -> OPF(file_name, name)

\* Bada.__init__: every per-aircraft array is created with no rows.
Bada_init == [name \in BadaArrays |-> <<>>]

\* Bada.add_aircraft(icao, mass_class).  The SYNONYM lookup
\* np.where(...)[0][0] raises IndexError for a code with no row, before
\* any array is touched; otherwise one row is appended to every array.
Bada_add_aircraft(arrays, icao, mass_class) ==
    IF icao \notin DOMAIN SYNONYM
    THEN [arrays |-> arrays, err |-> "IndexError"]
    ELSE [arrays |-> [name \in BadaArrays |->
                        np_append(arrays[name],
                                  NewRow(SYNONYM[icao], mass_class, name))],
          err |-> "none"]

\* Bada.del_aircraft(index): np.delete on each array in turn; the first
\* array for which index is out of bounds raises IndexError and the arrays
\* after it are left as they were.
RECURSIVE Bada_del_from(_, _, _)
Bada_del_from(arrays, index, k) ==
    IF k > Len(BadaArrayOrder)
    THEN [arrays |-> arrays, err |-> "none"]
    ELSE LET name == BadaArrayOrder[k]
         IN  IF ~np_index_ok(arrays[name], index)
             THEN [arrays |-> arrays, err |-> "IndexError"]
             ELSE Bada_del_from(
                      [arrays EXCEPT ![name] = np_delete(arrays[name], index)],
                      index, k + 1)

Bada_del_aircraft(arrays, index) == Bada_del_from(arrays, index, 1)

----------------------------------------------------------------------------
(* Performance: fleet registry                                             *)

\* All per-aircraft arrays of Performance and of its Bada model.
Snapshot == [drag |-> drag, thrust |-> thrust, esf |-> esf, bada |-> bada]

\* Number of rows of the Bada arrays when they all agree, else -1.
BadaLen ==
    LET n == Len(bada[BadaArrayOrder[1]])
    IN  IF \A name \in BadaArrays : Len(bada[name]) = n THEN n ELSE -1

\* Performance.__init__ in BADA mode.
PerformanceInit ==
    /\ drag = <<>>
    /\ thrust = <<>>
    /\ esf = <<>>
    /\ bada = Bada_init
    /\ err = "none"
    /\ ret = None
    /\ last = [op |-> "__init__", prev_op |-> "none", prev_err |-> "none"]
    /\ before = [drag |-> <<>>, thrust |-> <<>>, esf |-> <<>>,
                 bada |-> Bada_init]

\* Performance.add_aircraft(icao, engine, mass_class) in BADA mode: a zero
\* is appended to drag, thrust and esf, then Bada.add_aircraft runs; its
\* exception, if any, propagates.  The method has no return statement.
add_aircraft(icao, mass_class) ==
    /\ Len(drag) < MaxFleet
    /\ LET r == Bada_add_aircraft(bada, icao, mass_class)
       IN  /\ drag' = np_append(drag, 0)
           /\ thrust' = np_append(thrust, 0)
           /\ esf' = np_append(esf, 0)
           /\ bada' = r.arrays
           /\ err' = r.err
    /\ ret' = None
    /\ last' = [op |-> "add_aircraft", icao |-> icao,
                mass_class |-> mass_class,
                prev_op |-> last.op, prev_err |-> err]
    /\ before' = Snapshot

\* Performance.del_aircraft(index) in BADA mode: np.delete on drag, thrust
\* and esf, then Bada.del_aircraft; the first np.delete that raises ends
\* the call.
del_aircraft(index) ==
    /\ IF ~np_index_ok(drag, index)
       THEN /\ err' = "IndexError"
            /\ UNCHANGED <<drag, thrust, esf, bada>>
       ELSE /\ drag' = np_delete(drag, index)
            /\ IF ~np_index_ok(thrust, index)
               THEN /\ err' = "IndexError"
                    /\ UNCHANGED <<thrust, esf, bada>>
               ELSE /\ thrust' = np_delete(thrust, index)
                    /\ IF ~np_index_ok(esf, index)
                       THEN /\ err' = "IndexError"
                            /\ UNCHANGED <<esf, bada>>
                       ELSE /\ esf' = np_delete(esf, index)
                            /\ LET r == Bada_del_aircraft(bada, index)
                               IN  /\ bada' = r.arrays
                                   /\ err' = r.err
    /\ ret' = None
    /\ last' = [op |-> "del_aircraft", index |-> index,
                prev_op |-> last.op, prev_err |-> err]
    /\ before' = Snapshot

\* Performance.cal_vs_accel in BADA mode, as far as the per-aircraft arrays
\* go: drag, thrust and esf are replaced by freshly computed vectors that
\* have one entry per row of the Bada arrays (the traffic vectors
\* broadcast against them); the Bada arrays are only read.
cal_vs_accel ==
    /\ BadaLen >= 0
    /\ \E sample \in [1..BadaLen -> TickSamples] :
          /\ drag' = [i \in 1..BadaLen |-> sample[i].drag]
          /\ thrust' = [i \in 1..BadaLen |-> sample[i].thrust]
          /\ esf' = [i \in 1..BadaLen |-> sample[i].esf]
    /\ err' = "none"
    /\ ret' = None
    /\ last' = [op |-> "cal_vs_accel",
                prev_op |-> last.op, prev_err |-> err]
    /\ before' = Snapshot
    /\ UNCHANGED bada

----------------------------------------------------------------------------
(* Specification of the fleet registry                                     *)

ConfIdle ==
    /\ conf_args = [V_cas |-> 0, H_p |-> 0, vertical_mode |-> "LEVEL",
                    v_stall_cr |-> 0, v_stall_ap |-> 0]
    /\ configuration = "UNSET"

\* No calculation function has been called.
CallIdle ==
    /\ call = [fn |-> "none"]
    /\ result = [returned |-> FALSE]

Init == PerformanceInit /\ ConfIdle /\ CallIdle

Next ==
    \/ \E icao \in IcaoCodes, mass_class \in MassClasses :
          add_aircraft(icao, mass_class) /\ UNCHANGED <<confVars, callVars>>
    \/ \E index \in -(MaxFleet + 1) .. MaxFleet :
          del_aircraft(index) /\ UNCHANGED <<confVars, callVars>>
    \/ cal_vs_accel /\ UNCHANGED <<confVars, callVars>>

Spec == Init /\ [][Next]_vars

----------------------------------------------------------------------------
(* Bada: aerodynamic configuration (section 3.5)                           *)

VerticalModes == {"CLIMB", "LEVEL", "DESCENT"}

Configs == {"TAKEOFF", "INITIAL_CLIMB", "CLEAN", "APPROACH", "LANDING"}

\* Configuration altitude thresholds of the global parameter file [ft].
H_MAX_TO == 400
H_MAX_IC == 2000
H_MAX_AP == 8000
H_MAX_LD == 3000

\* Minimum speed coefficient C_V_MIN = 1.3, times 10.
C_V_MIN_x10 == 13

\* V_cas < C_V_MIN * v_stall + 10.0, both sides times 10.
BelowVmin10(V_cas, v_stall) == 10 * V_cas < C_V_MIN_x10 * v_stall + 100

\* V_cas >= C_V_MIN * v_stall + 10.0, both sides times 10.
AtLeastVmin10(V_cas, v_stall) == 10 * V_cas >= C_V_MIN_x10 * v_stall + 100

\* Bada.update_configuration with "<" for "<=" in the take-off band.
update_configuration_strict_to(V_cas, H_p, vertical_mode, v_stall_cr, v_stall_ap) ==
    np_select(
        << vertical_mode = "CLIMB" /\ H_p < H_MAX_TO,
           vertical_mode = "CLIMB" /\ H_p > H_MAX_TO /\ H_p < H_MAX_IC,
           \/ H_p > H_MAX_IC
           \/ vertical_mode = "DESCENT" /\ AtLeastVmin10(V_cas, v_stall_cr),
           \/ /\ vertical_mode = "DESCENT"
              /\ BelowVmin10(V_cas, v_stall_cr)
              /\ H_p > H_MAX_LD
              /\ H_p <= H_MAX_AP
           \/ /\ BelowVmin10(V_cas, v_stall_cr)
              /\ AtLeastVmin10(V_cas, v_stall_ap)
              /\ H_p <= H_MAX_LD,
           /\ vertical_mode = "DESCENT"
           /\ H_p < H_MAX_LD
           /\ BelowVmin10(V_cas, v_stall_ap) >>,
        << "TAKEOFF", "INITIAL_CLIMB", "CLEAN", "APPROACH", "LANDING" >>,
        "CLEAN")

\* Bada.update_configuration for one slot.  In the source "&" binds
\* tighter than "|": the third condition is
\*   (H_p > IC) | (DESCENT & V_cas >= Vmin_cr + 10)
\* and the fourth is
\*   (DESCENT & (V_cas < Vmin_cr+10 & LD < H_p <= AP))
\*     | (V_cas < Vmin_cr+10 & V_cas >= Vmin_ap+10 & H_p <= LD).
update_configuration(V_cas, H_p, vertical_mode, v_stall_cr, v_stall_ap) ==
    np_select(
        << vertical_mode = "CLIMB" /\ H_p <= H_MAX_TO,
           vertical_mode = "CLIMB" /\ H_p > H_MAX_TO /\ H_p < H_MAX_IC,
           \/ H_p > H_MAX_IC
           \/ vertical_mode = "DESCENT" /\ AtLeastVmin10(V_cas, v_stall_cr),
           \/ /\ vertical_mode = "DESCENT"
              /\ BelowVmin10(V_cas, v_stall_cr)
              /\ H_p > H_MAX_LD
              /\ H_p <= H_MAX_AP
           \/ /\ BelowVmin10(V_cas, v_stall_cr)
              /\ AtLeastVmin10(V_cas, v_stall_ap)
              /\ H_p <= H_MAX_LD,
           /\ vertical_mode = "DESCENT"
           /\ H_p < H_MAX_LD
           /\ BelowVmin10(V_cas, v_stall_ap) >>,
        << "TAKEOFF", "INITIAL_CLIMB", "CLEAN", "APPROACH", "LANDING" >>,
        "CLEAN")

\* Performance.update_configuration in BADA mode: the result of
\* Bada.update_configuration, handed back to the caller.
Performance_update_configuration ==
    /\ configuration = "UNSET"
    /\ configuration' = update_configuration(
                            conf_args.V_cas, conf_args.H_p,
                            conf_args.vertical_mode,
                            conf_args.v_stall_cr, conf_args.v_stall_ap)
    /\ UNCHANGED conf_args
    /\ UNCHANGED fleetVars
    /\ UNCHANGED callVars

----------------------------------------------------------------------------
(* Specification of the configuration classifier                           *)

\* Altitudes [ft] on both sides of every threshold.
HpSamples == {-100, 0, 200, 399, 400, 401, 1000, 1999, 2000, 2001, 2500,
              2999, 3000, 3001, 5000, 7999, 8000, 8001, 20000}

\* Calibrated airspeeds [kt] on both sides of Vmin + 10 of each stall pair.
CasSamples == {0, 113, 114, 120, 139, 140, 149, 150, 191, 192, 300}

\* <<v_stall_cr, v_stall_ap>> [kt] of a slot.
StallSamples == {<<100, 80>>, <<140, 107>>}

ConfInputs ==
    {[V_cas |-> v, H_p |-> h, vertical_mode |-> m,
      v_stall_cr |-> s[1], v_stall_ap |-> s[2]] :
        v \in CasSamples, h \in HpSamples, m \in VerticalModes,
        s \in StallSamples}

InitConfig ==
    /\ PerformanceInit
    /\ CallIdle
    /\ conf_args \in ConfInputs
    /\ configuration = "UNSET"

NextConfig == Performance_update_configuration

SpecConfig == InitConfig /\ [][NextConfig]_vars

----------------------------------------------------------------------------
(* Properties of the fleet registry (Spec)                                 *)

\* Every per-aircraft array of the record s has exactly N rows.
FleetOf(s, N) ==
    /\ Len(s.drag) = N
    /\ Len(s.thrust) = N
    /\ Len(s.esf) = N
    /\ \A name \in BadaArrays : Len(s.bada[name]) = N

\* new is old without its row i (0-based): the rows before i are kept and
\* every later row has moved down by one.
ShiftedDown(old, new, i) ==
    /\ Len(new) = Len(old) - 1
    /\ \A j \in 1..Len(new) : new[j] = IF j <= i THEN old[j] ELSE old[j + 1]

\* new is old with its row i (0-based) set to zero and nothing else changed.
ZeroedAt(old, new, i) ==
    /\ Len(new) = Len(old)
    /\ \A j \in 1..Len(old) : j # i + 1 => new[j] = old[j]

\* C1: after any sequence of add_aircraft and del_aircraft calls, failed
\* ones included, drag, thrust, esf and every Bada array have one length.
C1_AllArraysSameLength ==
    \E N \in 0..MaxFleet : FleetOf(Snapshot, N)

\* C2: add_aircraft with a code that has no SYNONYM row fails with a lookup
\* error (IndexError is one) and leaves every per-aircraft array as it was.
C2_UnknownIcaoAtomic ==
    (last.op = "add_aircraft" /\ last.icao \notin DOMAIN SYNONYM)
        => (err = "IndexError" /\ Snapshot = before)

\* C3: from any fleet state, a successful add_aircraft followed at once by
\* del_aircraft of the slot just added (the index of the row the add
\* appended) leaves every per-aircraft array as it was before the add.
C3_AddDelRoundTrip ==
    [][ ( /\ last.op = "add_aircraft"
          /\ err = "none"
          /\ last'.op = "del_aircraft"
          /\ last'.index = Len(before.bada["__n_eng"]) )
        => ( err' = "none" /\ Snapshot' = before ) ]_vars

C5_DelZeroesSlot ==
    \A N \in 1..MaxFleet :
        ( /\ last.op = "del_aircraft"
          /\ FleetOf(before, N)
          /\ last.index >= 0
          /\ last.index < N )
        => /\ FleetOf(Snapshot, N)
           /\ \A name \in BadaArrays :
                 ZeroedAt(before.bada[name], bada[name], last.index)

\* C6: a successful add_aircraft returns the index of the aircraft it
\* added, which is the number of slots before the call.
C6_AddReturnsIndex ==
    (last.op = "add_aircraft" /\ err = "none")
        => ret = Int_(Len(before.bada["__n_eng"]))

----------------------------------------------------------------------------
(* Properties of the configuration classifier (SpecConfig)                 *)

\* C7: APPROACH and LANDING are returned only for a slot in DESCENT.
C7_ApproachLandingOnlyInDescent ==
    configuration \in {"APPROACH", "LANDING"}
        => conf_args.vertical_mode = "DESCENT"

\* C8: a descending slot with CAS < Vmin_clean + 10 and
\* H_MAX_LD < H_p <= H_MAX_AP is classified APPROACH.
C8_ApproachBand ==
    ( /\ configuration # "UNSET"
      /\ conf_args.vertical_mode = "DESCENT"
      /\ BelowVmin10(conf_args.V_cas, conf_args.v_stall_cr)
      /\ conf_args.H_p > H_MAX_LD
      /\ conf_args.H_p <= H_MAX_AP )
    => configuration = "APPROACH"

\* C9: every descending slot with H_p < H_MAX_LD and CAS < Vmin_ap + 10 is
\* classified LANDING.
C9_LandingBand ==
    ( /\ configuration # "UNSET"
      /\ conf_args.vertical_mode = "DESCENT"
      /\ conf_args.H_p < H_MAX_LD
      /\ BelowVmin10(conf_args.V_cas, conf_args.v_stall_ap) )
    => configuration = "LANDING"

\* C10: in CLIMB the result is TAKEOFF for H_p <= H_MAX_TO and
\* INITIAL_CLIMB for H_MAX_TO < H_p < H_MAX_IC; in any vertical mode it is
\* CLEAN for H_p > H_MAX_IC; whatever the CAS.
C10_ClimbBandsAndClean ==
    configuration # "UNSET" =>
        /\ (conf_args.vertical_mode = "CLIMB" /\ conf_args.H_p <= H_MAX_TO)
              => configuration = "TAKEOFF"
        /\ ( /\ conf_args.vertical_mode = "CLIMB"
             /\ conf_args.H_p > H_MAX_TO
             /\ conf_args.H_p < H_MAX_IC )
              => configuration = "INITIAL_CLIMB"
        /\ conf_args.H_p > H_MAX_IC => configuration = "CLEAN"

\* C10 witness: a climbing slot exactly at H_MAX_TO, with a CAS inside the
\* approach speed band, was classified TAKEOFF.
C10_Witness ==
    /\ configuration = "TAKEOFF"
    /\ conf_args.vertical_mode = "CLIMB"
    /\ conf_args.H_p = H_MAX_TO
    /\ BelowVmin10(conf_args.V_cas, conf_args.v_stall_cr)
    /\ AtLeastVmin10(conf_args.V_cas, conf_args.v_stall_ap)

----------------------------------------------------------------------------
(* Bada: engine thrust (section 3.7)                                       *)

\* EngineType enum, as add_aircraft stores it: 'Jet': 1, 'Turboprop': 2,
\* 'Piston': 3.
JET == 1
TURBOPROP == 2
PISTON == 3

APSpeedModes == {"CONSTANT_CAS", "CONSTANT_MACH", "ACCELERATE", "DECELERATE"}

\* Maximum cruise thrust coefficient of the global parameter file [0.95].
C_TCR == Q(95, 100)

\* Bada.__cal_max_climb_to_thrust: the maximum climb thrust at standard
\* atmosphere of one slot `ac` (its coefficient row), by engine type.
thr_max_climb_isa(ac, H_p, V_tas) ==
    LET one == QI(1)
    IN  np_select(
            << ac.engine_type = JET,
               ac.engine_type = TURBOPROP,
               ac.engine_type = PISTON >>,
            << QMul(ac.c_tc_1,
                    QAdd(QSub(one, QDiv(H_p, ac.c_tc_2)),
                         QMul(ac.c_tc_3, np_square(H_p)))),
               QAdd(QMul(QDiv(ac.c_tc_1, V_tas),
                         QSub(one, QDiv(H_p, ac.c_tc_2))),
                    ac.c_tc_3),
               QAdd(QMul(ac.c_tc_1, QSub(one, QDiv(H_p, ac.c_tc_2))),
                    QDiv(ac.c_tc_3, V_tas)) >>,
            QI(0))

\* The temperature factor without the upper limit 0.4 of the reduction.
thr_max_climb_temperature_factor_unclipped(ac, d_T) ==
    QSub(QI(1),
         np_clip_lo(QMul(np_clip_lo(ac.c_tc_5, QI(0)),
                         QSub(d_T, ac.c_tc_4)),
                    QI(0)))

\* Bada.__cal_max_climb_to_thrust: the factor that corrects the thrust for
\* the temperature deviation from standard atmosphere.
thr_max_climb_temperature_factor(ac, d_T) ==
    QSub(QI(1),
         np_clip(QMul(np_clip_lo(ac.c_tc_5, QI(0)),
                      QSub(d_T, ac.c_tc_4)),
                 QI(0), Q(4, 10)))

\* Bada.__cal_max_climb_to_thrust for one slot `ac` (its coefficient row).
cal_max_climb_to_thrust(ac, H_p, V_tas, d_T) ==
    QMul(thr_max_climb_isa(ac, H_p, V_tas),
         thr_max_climb_temperature_factor(ac, d_T))

\* Bada.__cal_max_cruise_thrust
cal_max_cruise_thrust(Thr_max_climb) == QMul(C_TCR, Thr_max_climb)

\* The descent thrust with the transition altitude h_p_des for every slot.
cal_descent_thrust_no_clamp(ac, H_p, Thr_max_climb, config) ==
    np_where(
        QLt(ac.h_p_des, H_p),
        QMul(ac.c_tdes_high, Thr_max_climb),
        np_select(<< config = "CLEAN", config = "APPROACH",
                     config = "LANDING" >>,
                  << QMul(ac.c_tdes_low, Thr_max_climb),
                     QMul(ac.c_tdes_app, Thr_max_climb),
                     QMul(ac.c_tdes_ld, Thr_max_climb) >>,
                  QI(0)))

\* Bada.__cal_descent_thrust for one slot.
cal_descent_thrust(ac, H_p, Thr_max_climb, config) ==
    np_where(
        QLt(np_where(ac.c_d2_ap # QI(0),
                     np_clip_lo(ac.h_p_des, QI(H_MAX_AP)),
                     ac.h_p_des),
            H_p),
        QMul(ac.c_tdes_high, Thr_max_climb),
        np_select(<< config = "CLEAN", config = "APPROACH",
                     config = "LANDING" >>,
                  << QMul(ac.c_tdes_low, Thr_max_climb),
                     QMul(ac.c_tdes_app, Thr_max_climb),
                     QMul(ac.c_tdes_ld, Thr_max_climb) >>,
                  QI(0)))

\* Regime conditions of cal_thrust without LEVEL & DECELERATE in the third.
cal_thrust_condlist_no_decel(vertical_mode, ap_speed_mode) ==
    << vertical_mode = "CLIMB"
          \/ (vertical_mode = "LEVEL" /\ ap_speed_mode = "ACCELERATE"),
       vertical_mode = "LEVEL"
          /\ (ap_speed_mode = "CONSTANT_CAS" \/ ap_speed_mode = "CONSTANT_MACH"),
       vertical_mode = "DESCENT" >>

\* Bada.cal_thrust: the three regime conditions, in order.
cal_thrust_condlist(vertical_mode, ap_speed_mode) ==
    << vertical_mode = "CLIMB"
          \/ (vertical_mode = "LEVEL" /\ ap_speed_mode = "ACCELERATE"),
       vertical_mode = "LEVEL"
          /\ (ap_speed_mode = "CONSTANT_CAS" \/ ap_speed_mode = "CONSTANT_MACH"),
       vertical_mode = "DESCENT"
          \/ (vertical_mode = "LEVEL" /\ ap_speed_mode = "DECELERATE") >>

\* Choices of cal_thrust whose cruise entry is the drag, without the cap.
cal_thrust_choicelist_uncapped(ac, config, H_p, V_tas, d_T, D) ==
    << cal_max_climb_to_thrust(ac, H_p, V_tas, d_T),
       D,
       cal_descent_thrust(ac, H_p,
                          cal_max_climb_to_thrust(ac, H_p, V_tas, d_T),
                          config) >>

\* Bada.cal_thrust: the three choices, in order.
cal_thrust_choicelist(ac, config, H_p, V_tas, d_T, D) ==
    << cal_max_climb_to_thrust(ac, H_p, V_tas, d_T),
       np_minimum(D, cal_max_cruise_thrust(
                         cal_max_climb_to_thrust(ac, H_p, V_tas, d_T))),
       cal_descent_thrust(ac, H_p,
                          cal_max_climb_to_thrust(ac, H_p, V_tas, d_T),
                          config) >>

\* Bada.cal_thrust for one slot; np.select falls through to 0.
cal_thrust(ac, vertical_mode, config, H_p, V_tas, d_T, D, ap_speed_mode) ==
    np_select(cal_thrust_condlist(vertical_mode, ap_speed_mode),
              cal_thrust_choicelist(ac, config, H_p, V_tas, d_T, D),
              QI(0))

\* A call of cal_thrust returns.
Bada_cal_thrust ==
    /\ call.fn = "cal_thrust"
    /\ ~result.returned
    /\ result' = [returned |-> TRUE,
                  value |-> cal_thrust(call.ac, call.vertical_mode,
                                       call.configuration, call.H_p,
                                       call.V_tas, call.d_T, call.drag,
                                       call.ap_speed_mode)]
    /\ UNCHANGED call
    /\ UNCHANGED <<fleetVars, confVars>>

----------------------------------------------------------------------------
(* Specification of the thrust dispatcher                                  *)

\* Coefficient rows of a jet, a turboprop and a piston aircraft.
ThrustAircraft ==
    { [engine_type |-> JET, c_tc_1 |-> QI(100), c_tc_2 |-> QI(40000),
       c_tc_3 |-> Q(1, 10000), c_tc_4 |-> QI(10), c_tc_5 |-> Q(1, 100),
       c_tdes_low |-> Q(1, 10), c_tdes_high |-> Q(2, 10),
       c_tdes_app |-> Q(3, 10), c_tdes_ld |-> Q(4, 10),
       h_p_des |-> QI(5000), c_d2_ap |-> Q(4, 100)],
      [engine_type |-> TURBOPROP, c_tc_1 |-> QI(100), c_tc_2 |-> QI(40000),
       c_tc_3 |-> Q(1, 1000), c_tc_4 |-> QI(0), c_tc_5 |-> Q(1, 10),
       c_tdes_low |-> Q(1, 10), c_tdes_high |-> Q(2, 10),
       c_tdes_app |-> Q(3, 10), c_tdes_ld |-> Q(4, 10),
       h_p_des |-> QI(5000), c_d2_ap |-> QI(0)],
      [engine_type |-> PISTON, c_tc_1 |-> QI(10), c_tc_2 |-> QI(20000),
       c_tc_3 |-> Q(1, 10), c_tc_4 |-> QI(0), c_tc_5 |-> Q(-1, 100),
       c_tdes_low |-> Q(1, 10), c_tdes_high |-> Q(2, 10),
       c_tdes_app |-> Q(3, 10), c_tdes_ld |-> Q(4, 10),
       h_p_des |-> QI(5000), c_d2_ap |-> QI(0)] }

ThrustCalls ==
    {[fn |-> "cal_thrust", ac |-> ac, vertical_mode |-> vm,
      configuration |-> cf, H_p |-> QI(h), V_tas |-> QI(v), d_T |-> QI(t),
      drag |-> QI(d), ap_speed_mode |-> sm] :
        ac \in ThrustAircraft, vm \in VerticalModes, cf \in Configs,
        h \in {0, 600, 5000, 8000, 9000}, v \in {0, 250},
        t \in {0, 30, 100},
        d \in {0, 50, 200}, sm \in APSpeedModes}

InitThrust ==
    /\ PerformanceInit
    /\ ConfIdle
    /\ call \in ThrustCalls
    /\ result = [returned |-> FALSE]

NextThrust == Bada_cal_thrust

SpecThrust == InitThrust /\ [][NextThrust]_vars

----------------------------------------------------------------------------
(* Properties of the thrust dispatcher (SpecThrust)                        *)

\* C11: for every vertical mode and autopilot speed mode exactly one of
\* the three regime conditions of cal_thrust is true, and the value
\* returned is that regime's choice, never the fall-through default.
C11_ExactlyOneRegime ==
    (call.fn = "cal_thrust" /\ result.returned) =>
        LET cond == cal_thrust_condlist(call.vertical_mode,
                                        call.ap_speed_mode)
            choice == cal_thrust_choicelist(call.ac, call.configuration,
                                            call.H_p, call.V_tas, call.d_T,
                                            call.drag)
        IN  /\ Cardinality({k \in 1..3 : cond[k]}) = 1
            /\ \A k \in 1..3 : cond[k] => result.value = choice[k]

\* C11 witness: a LEVEL slot that decelerates got the descent regime.
C11_Witness ==
    /\ call.fn = "cal_thrust"
    /\ result.returned
    /\ call.vertical_mode = "LEVEL"
    /\ call.ap_speed_mode = "DECELERATE"
    /\ call.configuration = "CLEAN"
    /\ result.value # QI(0)

\* C12: in LEVEL with CONSTANT_CAS or CONSTANT_MACH cal_thrust returns
\* min(drag, C_TCR * max_climb_thrust): the drag when it does not exceed
\* the cap, the cap otherwise; the thrust never exceeds the drag.
C12_CruiseThrustIsCappedDrag ==
    ( /\ call.fn = "cal_thrust"
      /\ result.returned
      /\ call.vertical_mode = "LEVEL"
      /\ call.ap_speed_mode \in {"CONSTANT_CAS", "CONSTANT_MACH"} )
    => LET cap == QMul(Q(95, 100),
                       cal_max_climb_to_thrust(call.ac, call.H_p,
                                               call.V_tas, call.d_T))
       IN  /\ result.value = np_minimum(call.drag, cap)
           /\ QLe(call.drag, cap) => result.value = call.drag
           /\ ~QLe(call.drag, cap) => result.value = cap
           /\ ~QLt(call.drag, result.value)

\* C12 witness: a cruising slot whose drag is above the cap got the cap.
C12_Witness ==
    /\ call.fn = "cal_thrust"
    /\ result.returned
    /\ call.vertical_mode = "LEVEL"
    /\ call.ap_speed_mode = "CONSTANT_MACH"
    /\ QLt(result.value, call.drag)
    /\ QLt(QI(0), result.value)

----------------------------------------------------------------------------
(* Bada: standard airspeed schedule lookup (section 4)                     *)

\* FlightPhase enum in increasing order of its values; get_procedure_speed
\* compares phases with <= CLIMB, == CRUISE and >= DESCENT.
FlightPhases ==
    << "TAKEOFF", "INITIAL_CLIMB", "CLIMB", "CRUISE", "DESCENT", "APPROACH",
       "LANDING" >>

\* Value of a flight phase.
FlightPhaseNo(phase) ==
    CHOOSE k \in 1..Len(FlightPhases) : FlightPhases[k] = phase

\* Bada.get_procedure_speed for one slot `ac` (engine type and the slot's
\* three schedule rows; column j of the source is element j + 1 here);
\* `zero` is the 0 np.select returns where no condition holds.
get_procedure_speed_of(ac, H_p, H_p_trans, flight_phase, zero) ==
    LET cl == ac.climb_schedule
        cr == ac.cruise_schedule
        de == ac.descent_schedule
    IN  np_select(
          << FlightPhaseNo(flight_phase) <= FlightPhaseNo("CLIMB"),
             flight_phase = "CRUISE",
             FlightPhaseNo(flight_phase) >= FlightPhaseNo("DESCENT") >>,
          << np_where(ac.engine_type = JET,
               np_select(<< H_p < 1500,
                            H_p >= 1500 /\ H_p < 3000,
                            H_p >= 3000 /\ H_p < 4000,
                            H_p >= 4000 /\ H_p < 5000,
                            H_p >= 5000 /\ H_p < 6000,
                            H_p >= 6000 /\ H_p < 10000,
                            H_p >= 10000 /\ H_p < H_p_trans,
                            H_p >= H_p_trans >>,
                         << cl[1], cl[2], cl[3], cl[4], cl[5], cl[6], cl[7],
                            cl[8] >>, zero),
               np_select(<< H_p < 500,
                            H_p >= 500 /\ H_p < 1000,
                            H_p >= 1000 /\ H_p < 1500,
                            H_p >= 1500 /\ H_p < 10000,
                            H_p >= 10000 /\ H_p < H_p_trans,
                            H_p >= H_p_trans >>,
                         << cl[1], cl[2], cl[3], cl[4], cl[5], cl[6] >>, zero)),
             np_where(ac.engine_type = JET,
               np_select(<< H_p < 3000,
                            H_p >= 3000 /\ H_p < 6000,
                            H_p >= 6000 /\ H_p < 14000,
                            H_p >= 14000 /\ H_p < H_p_trans,
                            H_p >= H_p_trans >>,
                         << cr[1], cr[2], cr[3], cr[4], cr[5] >>, zero),
               np_select(<< H_p < 3000,
                            H_p >= 3000 /\ H_p < 6000,
                            H_p >= 6000 /\ H_p < 10000,
                            H_p >= 10000 /\ H_p < H_p_trans,
                            H_p >= H_p_trans >>,
                         << cr[1], cr[2], cr[3], cr[4], cr[5] >>, zero)),
             np_where(ac.engine_type # PISTON,
               np_select(<< H_p < 999,
                            H_p >= 1000 /\ H_p < 1500,
                            H_p >= 1500 /\ H_p < 2000,
                            H_p >= 2000 /\ H_p < 3000,
                            H_p >= 3000 /\ H_p < 6000,
                            H_p >= 6000 /\ H_p < 10000,
                            H_p >= 10000 /\ H_p < H_p_trans,
                            H_p >= H_p_trans >>,
                         << de[1], de[2], de[3], de[4], de[5], de[6], de[7],
                            de[8] >>, zero),
               np_select(<< H_p < 500,
                            H_p >= 500 /\ H_p < 1000,
                            H_p >= 1000 /\ H_p < 1500,
                            H_p >= 1500 /\ H_p < 10000,
                            H_p >= 10000 /\ H_p < H_p_trans,
                            H_p >= H_p_trans >>,
                         << de[1], de[2], de[3], de[4], de[5], de[6] >>, zero))
          >>,
          zero)

\* Bada.get_procedure_speed for a slot whose rows hold integers.
get_procedure_speed(ac, H_p, H_p_trans, flight_phase) ==
    get_procedure_speed_of(ac, H_p, H_p_trans, flight_phase, 0)

\* A call of get_procedure_speed returns.
Bada_get_procedure_speed ==
    /\ call.fn = "get_procedure_speed"
    /\ ~result.returned
    /\ result' = [returned |-> TRUE,
                  value |-> get_procedure_speed(call.ac, call.H_p,
                                                call.H_p_trans,
                                                call.flight_phase)]
    /\ UNCHANGED call
    /\ UNCHANGED <<fleetVars, confVars>>

\* Slots whose schedule rows init_procedure_speed has filled: CAS in kt,
\* Mach in thousandths; a turboprop's and a piston's climb row and a
\* piston's descent row end with two entries 0.0.
ScheduledSlots ==
    { [engine_type |-> JET,
       climb_schedule |-> << 152, 157, 167, 177, 197, 250, 300, 780 >>,
       cruise_schedule |-> << 170, 220, 250, 310, 790 >>,
       descent_schedule |-> << 135, 140, 150, 180, 220, 249, 290, 770 >>],
      [engine_type |-> TURBOPROP,
       climb_schedule |-> << 120, 125, 130, 190, 200, 450, 0, 0 >>,
       cruise_schedule |-> << 150, 180, 240, 245, 460 >>,
       descent_schedule |-> << 115, 125, 135, 155, 210, 211, 230, 440 >>],
      [engine_type |-> PISTON,
       climb_schedule |-> << 90, 95, 100, 110, 111, 300, 0, 0 >>,
       cruise_schedule |-> << 122, 123, 124, 126, 310 >>,
       descent_schedule |-> << 85, 96, 101, 112, 113, 290, 0, 0 >>] }

SpeedCalls ==
    {[fn |-> "get_procedure_speed", ac |-> ac, H_p |-> h, H_p_trans |-> ht,
      flight_phase |-> FlightPhases[k]] :
        ac \in ScheduledSlots,
        h \in {0, 499, 500, 998, 999, 1000, 1499, 1500, 1999, 2000, 2999,
               3000, 3999, 4000, 4999, 5000, 5999, 6000, 9999, 10000, 13999,
               14000, 29999, 30000, 40000},
        ht \in {8000, 30000}, k \in 1..Len(FlightPhases)}

InitSpeed ==
    /\ PerformanceInit
    /\ ConfIdle
    /\ call \in SpeedCalls
    /\ result = [returned |-> FALSE]

NextSpeed == Bada_get_procedure_speed

SpecSpeed == InitSpeed /\ [][NextSpeed]_vars

----------------------------------------------------------------------------
(* Properties of the schedule lookup (SpecSpeed)                           *)

\* The columns of a phase's schedule row that init_procedure_speed fills
\* with speeds for the slot's engine type.
UsedEntries(ac, flight_phase) ==
    IF FlightPhaseNo(flight_phase) <= FlightPhaseNo("CLIMB")
    THEN {ac.climb_schedule[j] :
              j \in 1..(IF ac.engine_type = JET THEN 8 ELSE 6)}
    ELSE IF flight_phase = "CRUISE"
    THEN {ac.cruise_schedule[j] : j \in 1..5}
    ELSE {ac.descent_schedule[j] :
              j \in 1..(IF ac.engine_type # PISTON THEN 8 ELSE 6)}

\* C13: for every phase, engine type and altitude H_p the value returned
\* by get_procedure_speed for an initialised slot is an entry of the
\* phase's schedule row and never the fall-through value 0.
C13_BandsCoverEveryAltitude ==
    (call.fn = "get_procedure_speed" /\ result.returned) =>
        /\ result.value # 0
        /\ result.value \in UsedEntries(call.ac, call.flight_phase)

----------------------------------------------------------------------------
(* Bada: fuel consumption (section 3.9)                                    *)

\* The nominal fuel flow with the piston flow proportional to the thrust.
cal_nominal_fuel_flow_piston_thrust(ac, V_tas, Thr) ==
    np_select(
        << ac.engine_type = JET, ac.engine_type = TURBOPROP,
           ac.engine_type = PISTON >>,
        << QMul(QMul(ac.c_f1, QAdd(QI(1), QDiv(V_tas, ac.c_f2))), Thr),
           QMul(QMul(QMul(ac.c_f1, QSub(QI(1), QDiv(V_tas, ac.c_f2))),
                     QDiv(V_tas, QI(1000))),
                Thr),
           QMul(ac.c_f1, Thr) >>,
        QI(0))

\* Bada.__cal_nominal_fuel_flow [kg/min]
cal_nominal_fuel_flow(ac, V_tas, Thr) ==
    np_select(
        << ac.engine_type = JET, ac.engine_type = TURBOPROP,
           ac.engine_type = PISTON >>,
        << QMul(QMul(ac.c_f1, QAdd(QI(1), QDiv(V_tas, ac.c_f2))), Thr),
           QMul(QMul(QMul(ac.c_f1, QSub(QI(1), QDiv(V_tas, ac.c_f2))),
                     QDiv(V_tas, QI(1000))),
                Thr),
           ac.c_f1 >>,
        QI(0))

\* Bada.__cal_minimum_fuel_flow [kg/min]
cal_minimum_fuel_flow(ac, H_p) ==
    np_where(ac.engine_type # PISTON,
             QMul(ac.c_f3, QSub(QI(1), QDiv(H_p, ac.c_f4))),
             ac.c_f3)

\* Bada.__cal_approach_landing_fuel_flow [kg/min]
cal_approach_landing_fuel_flow(ac, V_tas, Thr, H_p) ==
    np_where(ac.engine_type # PISTON,
             np_maximum(cal_nominal_fuel_flow(ac, V_tas, Thr),
                        cal_minimum_fuel_flow(ac, H_p)),
             cal_minimum_fuel_flow(ac, H_p))

\* Bada.__cal_cruise_fuel_flow [kg/min]
cal_cruise_fuel_flow(ac, V_tas, Thr) ==
    np_select(
        << ac.engine_type = JET, ac.engine_type = TURBOPROP,
           ac.engine_type = PISTON >>,
        << QMul(QMul(QMul(ac.c_f1, QAdd(QI(1), QDiv(V_tas, ac.c_f2))), Thr),
                ac.c_fcr),
           QMul(QMul(QMul(QMul(ac.c_f1, QSub(QI(1), QDiv(V_tas, ac.c_f2))),
                          QDiv(V_tas, QI(1000))),
                     Thr),
                ac.c_fcr),
           QMul(ac.c_f1, ac.c_fcr) >>,
        QI(0))

\* Bada.cal_fuel_burn [kg/s]
cal_fuel_burn(ac, flight_phase, tas, Thr, alt) ==
    np_select(
        << flight_phase = "CRUISE", flight_phase = "DESCENT",
           flight_phase = "APPROACH", flight_phase = "LANDING" >>,
        << QDiv(cal_cruise_fuel_flow(ac, tas, Thr), QI(60000)),
           QDiv(cal_minimum_fuel_flow(ac, alt), QI(60000)),
           QDiv(cal_approach_landing_fuel_flow(ac, tas, Thr, alt),
                QI(60000)),
           cal_approach_landing_fuel_flow(ac, tas, Thr,
                                          QDiv(alt, QI(60000))) >>,
        QDiv(cal_nominal_fuel_flow(ac, tas, Thr), QI(60000)))

\* A call of cal_fuel_burn returns.
Bada_cal_fuel_burn ==
    /\ call.fn = "cal_fuel_burn"
    /\ ~result.returned
    /\ result' = [returned |-> TRUE,
                  value |-> cal_fuel_burn(call.ac, call.flight_phase,
                                          call.tas, call.thrust, call.alt)]
    /\ UNCHANGED call
    /\ UNCHANGED <<fleetVars, confVars>>

\* Fuel coefficient rows of a jet, a turboprop and a piston aircraft.
FuelCalls ==
    {[fn |-> "cal_fuel_burn", ac |-> ac, flight_phase |-> FlightPhases[k],
      tas |-> QI(v), thrust |-> QI(t), alt |-> QI(h)] :
        ac \in { [engine_type |-> JET, c_f1 |-> Q(3, 4), c_f2 |-> QI(1000),
                  c_f3 |-> QI(10), c_f4 |-> QI(50000), c_fcr |-> Q(9, 10)],
                 [engine_type |-> TURBOPROP, c_f1 |-> Q(1, 2),
                  c_f2 |-> QI(500), c_f3 |-> QI(5), c_f4 |-> QI(40000),
                  c_fcr |-> QI(1)],
                 [engine_type |-> PISTON, c_f1 |-> Q(3, 2), c_f2 |-> QI(0),
                  c_f3 |-> Q(1, 2), c_f4 |-> QI(0), c_fcr |-> Q(4, 5)] },
        k \in 1..Len(FlightPhases), v \in {0, 150, 250},
        t \in {0, 20, 4000}, h \in {0, 1500, 3000}}

----------------------------------------------------------------------------
(* Start-up: the BADA data folder                                          *)

\* Files that data/performance/BADA/ may hold.
BadaFiles == {"BADA.GPF", "SYNONYM.NEW", "A320__.OPF", "A320__.APF"}

\* main(): IOError when the listing of the folder has at most one entry;
\* otherwise start-up goes on.
main(files) ==
    IF Cardinality(files) <= 1 THEN [raised |-> "IOError"]
    ELSE [raised |-> "none"]

\* Bada.__init__ with the folder holding `files`: the global factors are
\* read when BADA.GPF is a file, otherwise a message is printed and the
\* constructor goes on; np.genfromtxt of SYNONYM.NEW raises OSError when
\* that file is absent.  gpf_factors tells whether the instance has the
\* global performance factors.
Bada_new(files) ==
    LET gpf_factors == "BADA.GPF" \in files
    IN  IF "SYNONYM.NEW" \notin files
        THEN [raised |-> "OSError"]
        ELSE [raised |-> "none", gpf_factors |-> gpf_factors]

\* main() or the constructor of Bada runs.
Startup ==
    /\ call.fn \in {"main", "Bada"}
    /\ ~result.returned
    /\ result' = [returned |-> TRUE,
                  value |-> IF call.fn = "main" THEN main(call.files)
                            ELSE Bada_new(call.files)]
    /\ UNCHANGED call
    /\ UNCHANGED <<fleetVars, confVars>>

StartupCalls ==
    {[fn |-> f, files |-> fs] : f \in {"main", "Bada"},
                                fs \in SUBSET BadaFiles}

----------------------------------------------------------------------------
(* Bada: building the airspeed schedule of a slot (section 4)              *)

\* Speed increments V_D_CL_1 .. V_D_CL_8 of the global parameter file
\* [5, 10, 30, 60, 80, 20, 30, 35 knot CAS].
V_D_CL == << 5, 10, 30, 60, 80, 20, 30, 35 >>

\* Speed increments V_D_DSE_1 .. V_D_DSE_7 [5, 10, 20, 50, 5, 10, 20].
V_D_DSE == << 5, 10, 20, 50, 5, 10, 20 >>

\* np.sqrt for a float whose numerator and denominator are squares; nan
\* for a negative float.
np_sqrt(a) ==
    IF IsNaN(a) \/ a.n < 0 THEN NaN
    ELSE [n |-> CHOOSE r \in 0..a.n : r * r = a.n,
          d |-> CHOOSE r \in 0..a.d : r * r = a.d]

\* Unit.kts2mps and Unit.mps2kts: knots to m/s and back.
kts2mps(v) == QMul(v, Q(514444, 1000000))

mps2kts(v) == QDiv(v, Q(514444, 1000000))

\* Bada.__cal_operating_speed for one slot: V_ref * sqrt(m / (m_ref * 1000)).
cal_operating_speed(m, V_ref, m_ref) ==
    QMul(V_ref, np_sqrt(QDiv(m, QMul(m_ref, QI(1000)))))

\* The three rows init_procedure_speed builds for slot n (0-based) at
\* mass m.
ScheduleRows(arrays, m, n) ==
    LET at(name) == QI(arrays[name][n + 1])
        C_V_MIN == Q(C_V_MIN_x10, 10)
        v_stall_to_act ==
            mps2kts(cal_operating_speed(m, kts2mps(at("__v_stall_to")),
                                        at("__m_ref")))
        v_stall_ld_act ==
            mps2kts(cal_operating_speed(m, kts2mps(at("__v_stall_ld")),
                                        at("__m_ref")))
        to(k) == QAdd(QMul(C_V_MIN, v_stall_to_act), QI(V_D_CL[k]))
        ld(k) == QAdd(QMul(C_V_MIN, v_stall_ld_act), QI(V_D_DSE[k]))
        engine_type == arrays["__engine_type"][n + 1]
    IN  [climb_schedule |->
             IF engine_type = JET
             THEN << to(1), to(2), to(3), to(4), to(5),
                     np_minimum(at("__v_cl_1"), QI(250)), at("__v_cl_2"),
                     at("__m_cl") >>
             ELSE << to(6), to(7), to(8),
                     np_minimum(at("__v_cl_1"), QI(250)), at("__v_cl_2"),
                     at("__m_cl"), QI(0), QI(0) >>,
         cruise_schedule |->
             IF engine_type = JET
             THEN << np_minimum(at("__v_cr_1"), QI(170)),
                     np_minimum(at("__v_cr_1"), QI(220)),
                     np_minimum(at("__v_cr_1"), QI(250)), at("__v_cr_2"),
                     at("__m_cr") >>
             ELSE << np_minimum(at("__v_cr_1"), QI(150)),
                     np_minimum(at("__v_cr_1"), QI(180)),
                     np_minimum(at("__v_cr_1"), QI(250)), at("__v_cr_2"),
                     at("__m_cr") >>,
         descent_schedule |->
             IF engine_type # PISTON
             THEN << ld(1), ld(2), ld(3), ld(4),
                     np_minimum(at("__v_des_1"), QI(220)),
                     np_minimum(at("__v_des_1"), QI(250)), at("__v_des_2"),
                     at("__m_des") >>
             ELSE << ld(5), ld(6), ld(7), at("__v_des_1"), at("__v_des_2"),
                     at("__m_des"), QI(0), QI(0) >>]

\* The arrays that hold the schedules.
Schedules == {"climb_schedule", "cruise_schedule", "descent_schedule"}

\* init_procedure_speed that assigns the rows to every slot.
Bada_init_procedure_speed_all_slots(arrays, m, n) ==
    IF ~np_index_ok(arrays["__v_stall_to"], n)
    THEN [arrays |-> arrays, err |-> "IndexError"]
    ELSE LET rows == ScheduleRows(arrays, m, n)
         IN  [arrays |->
                  [name \in BadaArrays |->
                      IF name \in Schedules
                      THEN [j \in 1..Len(arrays[name]) |-> rows[name]]
                      ELSE arrays[name]],
              err |-> "none"]

\* init_procedure_speed that assigns the rows to slot n and every slot
\* after it.
Bada_init_procedure_speed_slice(arrays, m, n) ==
    IF ~np_index_ok(arrays["__v_stall_to"], n)
    THEN [arrays |-> arrays, err |-> "IndexError"]
    ELSE LET rows == ScheduleRows(arrays, m, n)
         IN  [arrays |->
                  [name \in BadaArrays |->
                      IF name \in Schedules
                      THEN [j \in 1..Len(arrays[name]) |->
                               IF j >= n + 1 THEN rows[name]
                               ELSE arrays[name][j]]
                      ELSE arrays[name]],
              err |-> "none"]

\* Bada.init_procedure_speed(m, n): indexing the stall-speed vector with n
\* raises IndexError for a slot that does not exist, before any row is
\* written; otherwise rows n of the three schedules are assigned.
Bada_init_procedure_speed(arrays, m, n) ==
    IF ~np_index_ok(arrays["__v_stall_to"], n)
    THEN [arrays |-> arrays, err |-> "IndexError"]
    ELSE LET rows == ScheduleRows(arrays, m, n)
         IN  [arrays |->
                  [name \in BadaArrays |->
                      IF name \in Schedules
                      THEN [arrays[name] EXCEPT ![n + 1] = rows[name]]
                      ELSE arrays[name]],
              err |-> "none"]

\* Performance.init_procedure_speed(mass, n) in BADA mode.
init_procedure_speed(mass, n) ==
    /\ LET r == Bada_init_procedure_speed(bada, mass, n)
       IN  /\ bada' = r.arrays
           /\ err' = r.err
    /\ ret' = None
    /\ last' = [op |-> "init_procedure_speed", n |-> n,
                prev_op |-> last.op, prev_err |-> err]
    /\ before' = Snapshot
    /\ UNCHANGED <<drag, thrust, esf>>

\* Masses [kg] handed to init_procedure_speed for slot n: the reference
\* mass of the slot [tonnes * 1000] and a quarter of it.
MassSamples(n) ==
    IF np_index_ok(bada["__m_ref"], n)
    THEN {Q(bada["__m_ref"][n + 1] * 1000, f) : f \in {1, 4}}
    ELSE {QI(60000)}

\* The engine type and the three schedule rows of slot i (1-based row).
SlotSchedules(arrays, i) ==
    [engine_type |-> arrays["__engine_type"][i],
     climb_schedule |-> arrays["climb_schedule"][i],
     cruise_schedule |-> arrays["cruise_schedule"][i],
     descent_schedule |-> arrays["descent_schedule"][i]]

\* Performance.get_procedure_speed(H_p, H_p_trans, flight_phase) in BADA
\* mode, every slot at the same altitude and phase: the vector of the
\* speeds looked up in the schedule rows; no array is written.
Performance_get_procedure_speed(H_p, H_p_trans, flight_phase) ==
    /\ BadaLen >= 0
    /\ ret' = [type |-> "ndarray",
               value |-> [i \in 1..BadaLen |->
                            get_procedure_speed_of(
                                SlotSchedules(bada, i), H_p, H_p_trans,
                                flight_phase, QI(0))]]
    /\ err' = "none"
    /\ last' = [op |-> "get_procedure_speed", H_p |-> H_p,
                flight_phase |-> flight_phase,
                prev_op |-> last.op, prev_err |-> err]
    /\ before' = Snapshot
    /\ UNCHANGED <<drag, thrust, esf, bada>>

----------------------------------------------------------------------------
(* Specification of the fleet registry with its airspeed schedules         *)

NextSched ==
    \/ \E icao \in IcaoCodes :
          add_aircraft(icao, 2) /\ UNCHANGED <<confVars, callVars>>
    \/ \E index \in -(MaxFleet + 1) .. MaxFleet :
          del_aircraft(index) /\ UNCHANGED <<confVars, callVars>>
    \/ \E n \in 0..MaxFleet : \E mass \in MassSamples(n) :
          init_procedure_speed(mass, n) /\ UNCHANGED <<confVars, callVars>>
    \/ \E lookup \in {<<999, "DESCENT">>, <<40000, "CLIMB">>} :
          /\ Performance_get_procedure_speed(lookup[1], 30000, lookup[2])
          /\ UNCHANGED <<confVars, callVars>>

SpecSched == Init /\ [][NextSched]_vars

----------------------------------------------------------------------------
(* Bada: aerodynamic drag (section 3.6)                                    *)

\* Gravitational acceleration [m/s^2].
G_0 == Q(980665, 100000)

\* np.cos(np.deg2rad(bank_angle)) for the bank angles 0 and 60 degrees.
cos_deg2rad(bank_angle) == IF bank_angle = 60 THEN Q(1, 2) ELSE QI(1)

\* Lift coefficient of cal_aerodynamic_drag.
c_L(ac, V_tas, bank_angle, m, rho) ==
    QDiv(QDiv(QDiv(QDiv(QMul(QMul(QI(2), m), G_0), rho), np_square(V_tas)),
              ac.S),
         cos_deg2rad(bank_angle))

\* The drag coefficient without the fall back to the cruise coefficients.
c_D_no_fallback(ac, cl, config) ==
    np_select(
        << config = "APPROACH", config = "LANDING" >>,
        << QAdd(ac.c_d0_ap, QMul(ac.c_d2_ap, np_square(cl))),
           QAdd(QAdd(ac.c_d0_ld, ac.c_d0_ldg),
                QMul(ac.c_d2_ld, np_square(cl))) >>,
        QAdd(ac.c_d0_cr, QMul(ac.c_d2_cr, np_square(cl))))

\* Drag coefficient of cal_aerodynamic_drag for the lift coefficient cl.
c_D(ac, cl, config) ==
    LET cruise == QAdd(ac.c_d0_cr, QMul(ac.c_d2_cr, np_square(cl)))
    IN  np_select(
            << config = "APPROACH", config = "LANDING" >>,
            << np_where(ac.c_d2_ap # QI(0),
                        QAdd(ac.c_d0_ap, QMul(ac.c_d2_ap, np_square(cl))),
                        cruise),
               np_where(ac.c_d2_ld # QI(0),
                        QAdd(QAdd(ac.c_d0_ld, ac.c_d0_ldg),
                             QMul(ac.c_d2_ld, np_square(cl))),
                        cruise) >>,
            cruise)

\* Drag force of cal_aerodynamic_drag before the test of V_tas.
drag_force(ac, V_tas, bank_angle, m, rho, config, c_des_exp) ==
    QMul(QDiv(QMul(QMul(QMul(c_D(ac, c_L(ac, V_tas, bank_angle, m, rho),
                                 config),
                             rho),
                        np_square(V_tas)),
                   ac.S),
              QI(2)),
         c_des_exp)

\* cal_aerodynamic_drag that returns the drag force whatever V_tas is.
cal_aerodynamic_drag_unguarded(ac, V_tas, bank_angle, m, rho, config, c_des_exp) ==
    drag_force(ac, V_tas, bank_angle, m, rho, config, c_des_exp)

\* Bada.cal_aerodynamic_drag for one slot.
cal_aerodynamic_drag(ac, V_tas, bank_angle, m, rho, config, c_des_exp) ==
    np_where(QEq(V_tas, QI(0)),
             QI(0),
             drag_force(ac, V_tas, bank_angle, m, rho, config, c_des_exp))

\* A call of cal_aerodynamic_drag returns.
Bada_cal_aerodynamic_drag ==
    /\ call.fn = "cal_aerodynamic_drag"
    /\ ~result.returned
    /\ result' = [returned |-> TRUE,
                  value |-> cal_aerodynamic_drag(call.ac, call.V_tas,
                                                 call.bank_angle, call.m,
                                                 call.rho,
                                                 call.configuration,
                                                 call.c_des_exp)]
    /\ UNCHANGED call
    /\ UNCHANGED <<fleetVars, confVars>>

\* Calls for a slot with approach and landing drag data and for one
\* without; V_tas in m/s, bank angle in degrees, mass in kg.
DragCalls ==
    {[fn |-> "cal_aerodynamic_drag", ac |-> ac, V_tas |-> QI(v),
      bank_angle |-> b, m |-> QI(m), rho |-> rho, configuration |-> cf,
      c_des_exp |-> e] :
        ac \in { [S |-> Q(196133, 1000), c_d0_cr |-> Q(1, 50),
                  c_d2_cr |-> Q(1, 25), c_d0_ap |-> Q(1, 20),
                  c_d2_ap |-> Q(1, 20), c_d0_ld |-> Q(1, 10),
                  c_d2_ld |-> Q(1, 25), c_d0_ldg |-> Q(1, 40)],
                 [S |-> Q(196133, 1000), c_d0_cr |-> Q(1, 40),
                  c_d2_cr |-> Q(1, 20), c_d0_ap |-> QI(0),
                  c_d2_ap |-> QI(0), c_d0_ld |-> QI(0),
                  c_d2_ld |-> QI(0), c_d0_ldg |-> QI(0)],
                 [S |-> Q(196133, 1000), c_d0_cr |-> Q(1, 50),
                  c_d2_cr |-> Q(1, 25), c_d0_ap |-> Q(1, 20),
                  c_d2_ap |-> QI(0), c_d0_ld |-> Q(1, 10),
                  c_d2_ld |-> Q(1, 25), c_d0_ldg |-> Q(1, 40)],
                 [S |-> Q(196133, 1000), c_d0_cr |-> Q(1, 50),
                  c_d2_cr |-> Q(1, 25), c_d0_ap |-> Q(1, 20),
                  c_d2_ap |-> Q(1, 20), c_d0_ld |-> Q(1, 10),
                  c_d2_ld |-> QI(0), c_d0_ldg |-> Q(1, 40)] },
        v \in {0, 100}, b \in {0, 60}, m \in {0, 50000},
        rho \in {QI(1), Q(5, 4)}, cf \in Configs, e \in {QI(1), Q(8, 5)}}

----------------------------------------------------------------------------
(* Bada: reduced climb power (section 3.8)                                 *)

\* Maximum reduction in power of the global parameter file, by engine
\* type: turboprop [0.25], piston [0.0], jet [0.15].
C_RED_TURBO == Q(25, 100)

C_RED_PISTON == QI(0)

C_RED_JET == Q(15, 100)

\* cal_reduced_climb_power that applies the reduction up to and including
\* 0.8 * H_max.
cal_reduced_climb_power_le(ac, m, H_p, H_max) ==
    LET c_red ==
            np_where(QLe(H_p, QMul(Q(8, 10), H_max)),
                     np_select(<< ac.engine_type = TURBOPROP,
                                  ac.engine_type = PISTON,
                                  ac.engine_type = JET >>,
                               << C_RED_TURBO, C_RED_PISTON, C_RED_JET >>,
                               QI(0)),
                     QI(0))
    IN  QSub(QI(1),
             QDiv(QMul(c_red, QSub(ac.m_max, QDiv(m, QI(1000)))),
                  QSub(ac.m_max, ac.m_min)))

\* Bada.cal_reduced_climb_power for one slot.
cal_reduced_climb_power(ac, m, H_p, H_max) ==
    LET c_red ==
            np_where(QLt(H_p, QMul(Q(8, 10), H_max)),
                     np_select(<< ac.engine_type = TURBOPROP,
                                  ac.engine_type = PISTON,
                                  ac.engine_type = JET >>,
                               << C_RED_TURBO, C_RED_PISTON, C_RED_JET >>,
                               QI(0)),
                     QI(0))
    IN  QSub(QI(1),
             QDiv(QMul(c_red, QSub(ac.m_max, QDiv(m, QI(1000)))),
                  QSub(ac.m_max, ac.m_min)))

\* A call of cal_reduced_climb_power returns.
Bada_cal_reduced_climb_power ==
    /\ call.fn = "cal_reduced_climb_power"
    /\ ~result.returned
    /\ result' = [returned |-> TRUE,
                  value |-> cal_reduced_climb_power(call.ac, call.m,
                                                    call.H_p, call.H_max)]
    /\ UNCHANGED call
    /\ UNCHANGED <<fleetVars, confVars>>

\* Mass in kg, mass limits of the slot in tonnes, altitudes in m with
\* 0.8 * H_max at 10000 or at 9600.
ReducedPowerCalls ==
    {[fn |-> "cal_reduced_climb_power",
      ac |-> [engine_type |-> e, m_max |-> QI(77), m_min |-> QI(mn)],
      m |-> QI(m), H_p |-> QI(h), H_max |-> QI(hm)] :
        e \in {JET, TURBOPROP, PISTON}, mn \in {40, 77},
        m \in {40000, 60000, 77000}, h \in {0, 9599, 9600, 9999, 10000, 12000},
        hm \in {12000, 12500}}

----------------------------------------------------------------------------
(* Performance: atmosphere model, temperature (section 3.1)                *)

\* Standard atmospheric temperature at MSL [K].
T_0 == Q(28815, 100)

\* ISA temperature gradient with altitude below the tropopause [K/m].
BETA_T_BELOW_TROP == Q(-65, 10000)

\* Geopotential pressure altitude of the tropopause [m].
H_P_TROP == 11000

\* cal_temperature with the gradient applied at every altitude.
cal_temperature_no_tropopause(H_p, d_T) ==
    QAdd(QAdd(T_0, d_T), QMul(BETA_T_BELOW_TROP, H_p))

\* Performance.cal_temperature
cal_temperature(H_p, d_T) ==
    np_where(QLt(H_p, QI(H_P_TROP)),
             QAdd(QAdd(T_0, d_T), QMul(BETA_T_BELOW_TROP, H_p)),
             QAdd(QAdd(T_0, d_T), QMul(BETA_T_BELOW_TROP, QI(H_P_TROP))))

\* A call of cal_temperature returns.
Performance_cal_temperature ==
    /\ call.fn = "cal_temperature"
    /\ ~result.returned
    /\ result' = [returned |-> TRUE,
                  value |-> cal_temperature(call.H_p, call.d_T)]
    /\ UNCHANGED call
    /\ UNCHANGED <<fleetVars, confVars>>

TemperatureCalls ==
    {[fn |-> "cal_temperature", H_p |-> h, d_T |-> QI(t)] :
        h \in {QI(-300), QI(0), QI(5000), Q(109999, 10), QI(11000),
               Q(110001, 10), QI(15000), QI(20000)},
        t \in {-10, 0, 15}}

----------------------------------------------------------------------------
(* Bada: low speed buffeting limit (section 3.6)                           *)

\* The last two statements of cal_low_speed_buffeting_limit, for the
\* roots arr = [X_1, X_2, X_3] of the cubic:
\* np.max(np.where(arr <= 0, np.inf, arr), axis=0).
buffeting_limit_of_roots(arr) ==
    LET kept == [i \in 1..3 |-> np_where(QLe(arr[i], QI(0)), Inf, arr[i])]
    IN  np_maximum(np_maximum(kept[1], kept[2]), kept[3])

\* A call of cal_low_speed_buffeting_limit returns; call.roots holds the
\* Mach numbers X_1, X_2, X_3 its trigonometric solution of the cubic has
\* produced for the arguments p and m.
Bada_cal_low_speed_buffeting_limit ==
    /\ call.fn = "cal_low_speed_buffeting_limit"
    /\ ~result.returned
    /\ result' = [returned |-> TRUE,
                  value |-> buffeting_limit_of_roots(call.roots)]
    /\ UNCHANGED call
    /\ UNCHANGED <<fleetVars, confVars>>

BuffetingCalls ==
    {[fn |-> "cal_low_speed_buffeting_limit", roots |-> << x1, x2, x3 >>] :
        x1, x2, x3 \in {QI(-1), QI(0), Q(1, 4), Q(1, 2), Q(3, 4)}}

----------------------------------------------------------------------------
(* Performance: total energy model (section 3.2)                           *)

\* A boolean array in arithmetic: True is 1.0 and False 0.0.
np_float(b) == IF b THEN QI(1) ELSE QI(0)

\* The atmospheres and Mach numbers of the calls of the energy share
\* factor, each with the value of Equations 3.2-9, 3.2-10 and 3.2-11 for
\* it (fractional powers of 1 + (KAPPA-1)/2 * M^2), to three decimals.
EnergyShareSamples ==
    { [T |-> QI(250), d_T |-> QI(0), M |-> Q(1, 2),
       eq_3_2_9 |-> Q(1034, 1000), eq_3_2_10 |-> Q(884, 1000),
       eq_3_2_11 |-> Q(858, 1000)],
      [T |-> QI(250), d_T |-> QI(10), M |-> Q(78, 100),
       eq_3_2_9 |-> Q(1084, 1000), eq_3_2_10 |-> Q(773, 1000),
       eq_3_2_11 |-> Q(729, 1000)],
      [T |-> QI(200), d_T |-> QI(0), M |-> QI(0),
       eq_3_2_9 |-> QI(1), eq_3_2_10 |-> QI(1), eq_3_2_11 |-> QI(1)] }

\* The np.power expressions of cal_energy_share_factor at T, d_T and M.
EnergyShareEquations(T, d_T, M) ==
    CHOOSE s \in EnergyShareSamples : s.T = T /\ s.d_T = d_T /\ s.M = M

\* The energy share factor whose DECELERATE entry is the ACCELERATE one.
cal_energy_share_factor_decelerate_as_accelerate(H_p, T, d_T, M, ap_speed_mode, vertical_mode) ==
    np_select(
        << ap_speed_mode = "CONSTANT_MACH",
           ap_speed_mode = "CONSTANT_CAS",
           ap_speed_mode = "ACCELERATE",
           ap_speed_mode = "DECELERATE" >>,
        << np_where(QLt(QI(H_P_TROP), H_p),
                    QI(1),
                    EnergyShareEquations(T, d_T, M).eq_3_2_9),
           np_where(QLe(H_p, QI(H_P_TROP)),
                    EnergyShareEquations(T, d_T, M).eq_3_2_10,
                    EnergyShareEquations(T, d_T, M).eq_3_2_11),
           QAdd(QMul(np_float(vertical_mode = "CLIMB"), Q(3, 10)),
                QMul(np_float(vertical_mode = "DESCENT"), Q(17, 10))),
           QAdd(QMul(np_float(vertical_mode = "CLIMB"), Q(3, 10)),
                QMul(np_float(vertical_mode = "DESCENT"), Q(17, 10))) >>,
        QI(0))

\* The regime conditions of cal_energy_share_factor, in order.
cal_energy_share_factor_condlist(ap_speed_mode) ==
    << ap_speed_mode = "CONSTANT_MACH",
       ap_speed_mode = "CONSTANT_CAS",
       ap_speed_mode = "ACCELERATE",
       ap_speed_mode = "DECELERATE" >>

\* The regime values of cal_energy_share_factor, in order.
cal_energy_share_factor_choicelist(H_p, T, d_T, M, vertical_mode) ==
    << np_where(QLt(QI(H_P_TROP), H_p),
                QI(1),
                EnergyShareEquations(T, d_T, M).eq_3_2_9),
       np_where(QLe(H_p, QI(H_P_TROP)),
                EnergyShareEquations(T, d_T, M).eq_3_2_10,
                EnergyShareEquations(T, d_T, M).eq_3_2_11),
       QAdd(QMul(np_float(vertical_mode = "CLIMB"), Q(3, 10)),
            QMul(np_float(vertical_mode = "DESCENT"), Q(17, 10))),
       QAdd(QMul(np_float(vertical_mode = "DESCENT"), Q(3, 10)),
            QMul(np_float(vertical_mode = "CLIMB"), Q(17, 10))) >>

\* Performance.cal_energy_share_factor for one slot; np.select falls
\* through to 0.
cal_energy_share_factor(H_p, T, d_T, M, ap_speed_mode, vertical_mode) ==
    np_select(cal_energy_share_factor_condlist(ap_speed_mode),
              cal_energy_share_factor_choicelist(H_p, T, d_T, M,
                                                 vertical_mode),
              QI(0))

\* A call of cal_energy_share_factor returns.
Performance_cal_energy_share_factor ==
    /\ call.fn = "cal_energy_share_factor"
    /\ ~result.returned
    /\ result' = [returned |-> TRUE,
                  value |-> cal_energy_share_factor(
                                call.H_p, call.T, call.d_T, call.M,
                                call.ap_speed_mode, call.vertical_mode)]
    /\ UNCHANGED call
    /\ UNCHANGED <<fleetVars, confVars>>

EnergyShareCalls ==
    {[fn |-> "cal_energy_share_factor", H_p |-> QI(h), T |-> s.T,
      d_T |-> s.d_T, M |-> s.M, ap_speed_mode |-> sm,
      vertical_mode |-> vm] :
        h \in {3000, H_P_TROP, 12000}, s \in EnergyShareSamples,
        sm \in APSpeedModes, vm \in VerticalModes}

\* Performance.cal_tem_rocd: rate of climb or descent from speed and
\* thrust.
cal_tem_rocd(T, d_T, m, D, f_M, Thr, V_tas, C_pow_red) ==
    QMul(QDiv(QDiv(QMul(QMul(QMul(QDiv(QSub(T, d_T), T), QSub(Thr, D)),
                             V_tas),
                        C_pow_red),
                   m),
              G_0),
         f_M)

\* Performance.cal_tem_accel: acceleration from rate of climb and thrust.
cal_tem_accel(T, d_T, m, D, rocd, Thr, V_tas) ==
    np_where(QEq(V_tas, QI(0)),
             QDiv(QSub(Thr, D), m),
             QSub(QDiv(QSub(Thr, D), m),
                  QDiv(QMul(QMul(QDiv(G_0, V_tas), rocd), T),
                       QSub(T, d_T))))

\* Performance.cal_tem_thrust: thrust from rate of climb and speed.  The
\* reduced power coefficient is carried along with the call; the method
\* has no such parameter and does not use it.
cal_tem_thrust(T, d_T, m, D, f_M, rocd, V_tas, C_pow_red) ==
    QAdd(QDiv(QMul(QMul(QDiv(QDiv(rocd, f_M), QDiv(QSub(T, d_T), T)), m),
                   G_0),
              V_tas),
         D)

\* A call of cal_tem_rocd returns.
Performance_cal_tem_rocd ==
    /\ call.fn = "cal_tem_rocd"
    /\ ~result.returned
    /\ result' = [returned |-> TRUE,
                  value |-> cal_tem_rocd(call.T, call.d_T, call.m, call.D,
                                         call.f_M, call.Thr, call.V_tas,
                                         call.C_pow_red)]
    /\ UNCHANGED call
    /\ UNCHANGED <<fleetVars, confVars>>

\* The rate of climb that cal_tem_rocd returned is given to
\* cal_tem_thrust with the same T, d_T, m, D, f_M and V_tas; the call keeps
\* the thrust and the coefficient the rate of climb was computed from.
Performance_cal_tem_thrust ==
    /\ call.fn = "cal_tem_rocd"
    /\ result.returned
    /\ call' = [call EXCEPT !.fn = "cal_tem_thrust",
                            !.rocd = result.value]
    /\ result' = [returned |-> TRUE,
                  value |-> cal_tem_thrust(call.T, call.d_T, call.m, call.D,
                                           call.f_M, result.value,
                                           call.V_tas, call.C_pow_red)]
    /\ UNCHANGED <<fleetVars, confVars>>

TemCalls ==
    {[fn |-> "cal_tem_rocd", T |-> QI(300), d_T |-> QI(t), m |-> QI(50000),
      D |-> QMul(QI(d), G_0), f_M |-> f, Thr |-> QMul(QI(thr), G_0),
      V_tas |-> QI(v), C_pow_red |-> c, rocd |-> QI(0)] :
        t \in {0, 30}, d \in {2000, 3000},
        f \in {QI(0), Q(3, 10), QI(1), Q(17, 10)},
        thr \in {2000, 2500, 8000}, v \in {0, 100, 200},
        c \in {QI(1), Q(9, 10), Q(85, 100)}}

\* Bada.cal_expedite_descend_factor; C_DES_EXP is the expedited descent
\* factor of the global parameter file [1.6].
C_DES_EXP == Q(16, 10)

cal_expedite_descend_factor(expedite_descent) ==
    np_where(expedite_descent, C_DES_EXP, QI(1))

\* Unit.ft2m and Unit.mps2ftpm.
ft2m(ft) == QMul(ft, Q(3048, 10000))

mps2ftpm(v) == QMul(QDiv(v, Q(3048, 10000)), QI(60))

\* Performance.cal_vs_accel in BADA mode for one slot `traffic` with the
\* coefficient row `ac`: the drag, thrust and energy share factor it
\* stores for the slot and the rate of climb [ft/min] and acceleration it
\* returns.
cal_vs_accel_slot(ac, traffic, tas) ==
    LET slot_drag ==
            cal_aerodynamic_drag(
                ac, tas, traffic.bank_angle, traffic.mass, traffic.rho,
                traffic.configuration,
                cal_expedite_descend_factor(traffic.expedite_descent))
        slot_thrust ==
            cal_thrust(ac, traffic.vertical_mode, traffic.configuration,
                       traffic.alt, traffic.tas, traffic.d_T, slot_drag,
                       traffic.speed_mode)
        slot_esf ==
            cal_energy_share_factor(ft2m(traffic.alt), traffic.T,
                                    traffic.d_T, traffic.mach,
                                    traffic.speed_mode,
                                    traffic.vertical_mode)
        rocd ==
            cal_tem_rocd(traffic.T, traffic.d_T, traffic.mass, slot_drag,
                         slot_esf, slot_thrust, tas,
                         cal_reduced_climb_power(ac, traffic.mass,
                                                 traffic.alt,
                                                 traffic.max_alt))
        accel ==
            np_where(traffic.speed_mode \in {"ACCELERATE", "DECELERATE"},
                     cal_tem_accel(traffic.T, traffic.d_T, traffic.mass,
                                   slot_drag, rocd, slot_thrust, tas),
                     QI(0))
    IN  [drag |-> slot_drag, thrust |-> slot_thrust, esf |-> slot_esf,
         rocd |-> mps2ftpm(rocd), accel |-> accel]

\* A call of cal_vs_accel for a fleet of one slot returns.
Performance_cal_vs_accel ==
    /\ call.fn = "cal_vs_accel"
    /\ ~result.returned
    /\ result' = [returned |-> TRUE,
                  value |-> cal_vs_accel_slot(call.ac, call.traffic,
                                              call.tas)]
    /\ UNCHANGED call
    /\ UNCHANGED <<fleetVars, confVars>>

\* A jet with drag, thrust and mass coefficients, and the slots it flies.
VsAccelCalls ==
    {[fn |-> "cal_vs_accel",
      ac |-> [engine_type |-> JET, S |-> Q(196133, 1000),
              c_d0_cr |-> Q(1, 50), c_d2_cr |-> Q(1, 25),
              c_d0_ap |-> Q(1, 20), c_d2_ap |-> Q(1, 20),
              c_d0_ld |-> Q(1, 10), c_d2_ld |-> Q(1, 25),
              c_d0_ldg |-> Q(1, 40),
              c_tc_1 |-> Q(196133, 1000), c_tc_2 |-> QI(2000),
              c_tc_3 |-> Q(1, 20000), c_tc_4 |-> QI(10),
              c_tc_5 |-> Q(1, 100),
              c_tdes_low |-> Q(1, 10), c_tdes_high |-> Q(2, 10),
              c_tdes_app |-> Q(3, 10), c_tdes_ld |-> Q(4, 10),
              h_p_des |-> QI(5000), m_max |-> QI(87), m_min |-> QI(50)],
      traffic |-> [bank_angle |-> 0, mass |-> QI(50000), rho |-> QI(1),
                   configuration |-> "CLEAN", expedite_descent |-> e,
                   vertical_mode |-> vm, alt |-> QI(2000), tas |-> QI(100),
                   T |-> s.T, d_T |-> s.d_T, mach |-> s.M,
                   speed_mode |-> sm, max_alt |-> QI(h)],
      tas |-> QI(v)] :
        e \in BOOLEAN, vm \in VerticalModes, h \in {2000, 11000},
        s \in {x \in EnergyShareSamples : x.d_T = QI(0)},
        sm \in APSpeedModes, v \in {0, 100}}

----------------------------------------------------------------------------
(* Specification of the calculation methods                                *)

InitCalc ==
    /\ PerformanceInit
    /\ ConfIdle
    /\ call \in FuelCalls \cup StartupCalls \cup DragCalls \cup
                 ReducedPowerCalls \cup TemperatureCalls \cup
                 BuffetingCalls \cup EnergyShareCalls \cup TemCalls \cup
                 VsAccelCalls
    /\ result = [returned |-> FALSE]

NextCalc ==
    \/ Bada_cal_fuel_burn
    \/ Startup
    \/ Bada_cal_aerodynamic_drag
    \/ Bada_cal_reduced_climb_power
    \/ Performance_cal_temperature
    \/ Bada_cal_low_speed_buffeting_limit
    \/ Performance_cal_energy_share_factor
    \/ Performance_cal_tem_rocd
    \/ Performance_cal_tem_thrust
    \/ Performance_cal_vs_accel

SpecCalc == InitCalc /\ [][NextCalc]_vars

----------------------------------------------------------------------------
(* Properties of the calculation methods (SpecCalc)                        *)

\* C14: for the same tas, thrust, altitude and coefficients cal_fuel_burn
\* returns for LANDING what it returns for APPROACH: the approach/landing
\* flow at that altitude divided by 60000.
C14_LandingBurnsAsApproach ==
    (call.fn = "cal_fuel_burn" /\ result.returned
         /\ call.flight_phase = "LANDING")
    => /\ result.value = cal_fuel_burn(call.ac, "APPROACH", call.tas,
                                       call.thrust, call.alt)
       /\ result.value =
              QDiv(cal_approach_landing_fuel_flow(call.ac, call.tas,
                                                  call.thrust, call.alt),
                   QI(60000))

\* C15: when BADA.GPF is absent, start-up and the construction of a Bada
\* model fail with an error; no Bada instance without the global
\* performance factors is produced.
C15_NoBadaWithoutGPF ==
    (call.fn \in {"main", "Bada"} /\ result.returned
         /\ "BADA.GPF" \notin call.files)
    => result.value.raised # "none"

----------------------------------------------------------------------------
(* Properties of the fleet registry with its schedules (SpecSched)         *)

\* The rows every array held before the last call are still there, except
\* the rows for which skip(name, j) holds.
RowsKeptExcept(skip(_, _)) ==
    \A name \in BadaArrays :
        \A j \in 1..Len(before.bada[name]) :
            ~skip(name, j) =>
                /\ j <= Len(bada[name])
                /\ bada[name][j] = before.bada[name][j]

\* C16 as stated: no operation other than del_aircraft changes anything of
\* an existing slot's coefficient record, its three schedule rows included.
C16_RecordNeverChanges ==
    last.op \notin {"__init__", "del_aircraft"} =>
        LET none(name, j) == FALSE
        IN  RowsKeptExcept(none)

\* C16 amended: no operation other than del_aircraft changes a coefficient
\* of an existing slot, and the schedule rows of a slot are changed only
\* by init_procedure_speed called for that slot.
C16_OnlyInitWritesSchedule ==
    last.op \notin {"__init__", "del_aircraft"} =>
        LET written(name, j) ==
                /\ last.op = "init_procedure_speed"
                /\ name \in Schedules
                /\ j = last.n + 1
        IN  RowsKeptExcept(written)

\* C16 witness: init_procedure_speed has filled the rows of slot 0 of a
\* fleet of two and left those of slot 1 as add_aircraft made them.
C16_Witness ==
    /\ last.op = "init_procedure_speed"
    /\ last.n = 0
    /\ err = "none"
    /\ Len(bada["climb_schedule"]) = 2
    /\ bada["climb_schedule"][1] # before.bada["climb_schedule"][1]
    /\ bada["climb_schedule"][2] = NewRow("A320__", 2, "climb_schedule")

\* C17: cal_aerodynamic_drag returns exactly 0 when V_tas = 0, whatever
\* the bank angle, mass, density, configuration and coefficients.
C17_NoDragAtRest ==
    (call.fn = "cal_aerodynamic_drag" /\ result.returned
         /\ call.V_tas = QI(0))
    => result.value = QI(0)

\* C17 witness: a call with V_tas = 0 for a slot of 50 tonnes returned 0,
\* where the drag force itself is not a number.
C17_Witness ==
    /\ call.fn = "cal_aerodynamic_drag"
    /\ result.returned
    /\ call.V_tas = QI(0)
    /\ call.m = QI(50000)
    /\ result.value = QI(0)
    /\ IsNaN(drag_force(call.ac, call.V_tas, call.bank_angle, call.m,
                        call.rho, call.configuration, call.c_des_exp))

\* C18: cal_reduced_climb_power returns exactly 1 for a slot with
\* H_p >= 0.8 * H_max, for each engine type and every mass, when
\* m_max differs from m_min.
C18_NoReductionNearCeiling ==
    ( /\ call.fn = "cal_reduced_climb_power"
      /\ result.returned
      /\ QLe(QMul(Q(8, 10), call.H_max), call.H_p)
      /\ call.ac.m_max # call.ac.m_min )
    => result.value = QI(1)

\* C18 witness: a jet below its maximum mass, exactly at 0.8 * H_max, got
\* 1, and a call below that altitude gets less.
C18_Witness ==
    /\ call.fn = "cal_reduced_climb_power"
    /\ result.returned
    /\ call.ac.engine_type = JET
    /\ call.ac.m_max # call.ac.m_min
    /\ call.m = QI(60000)
    /\ call.H_p = QMul(Q(8, 10), call.H_max)
    /\ result.value = QI(1)
    /\ QLt(cal_reduced_climb_power(call.ac, call.m, QI(0), call.H_max),
           QI(1))

\* C19: cal_temperature returns T0 + dT + beta * H_p for every H_p below
\* the tropopause; at or above it the value does not depend on H_p and is
\* the value at H_p = H_trop, which is what the formula of the lower
\* branch gives at H_trop.
C19_TemperatureProfile ==
    (call.fn = "cal_temperature" /\ result.returned) =>
        LET linear(h) ==
                QAdd(QAdd(Q(28815, 100), call.d_T), QMul(Q(-65, 10000), h))
        IN  /\ QLt(call.H_p, QI(11000)) => result.value = linear(call.H_p)
            /\ ~QLt(call.H_p, QI(11000)) =>
                   /\ result.value = cal_temperature(QI(11000), call.d_T)
                   /\ result.value = linear(QI(11000))

\* C19 witness: above the tropopause at ISA the temperature is 216.65 K.
C19_Witness ==
    /\ call.fn = "cal_temperature"
    /\ result.returned
    /\ call.H_p = QI(15000)
    /\ call.d_T = QI(0)
    /\ result.value = Q(21665, 100)

\* C20: when at least one of the three roots is positive,
\* cal_low_speed_buffeting_limit returns the largest positive root; the
\* roots that are not positive do not affect the result.
C20_LargestPositiveRoot ==
    ( /\ call.fn = "cal_low_speed_buffeting_limit"
      /\ result.returned
      /\ \E i \in 1..3 : QLt(QI(0), call.roots[i]) )
    => /\ \E i \in 1..3 : /\ QLt(QI(0), call.roots[i])
                          /\ result.value = call.roots[i]
       /\ \A i \in 1..3 : QLt(QI(0), call.roots[i])
                              => QLe(call.roots[i], result.value)

\* The altitude above which the high altitude descent thrust applies:
\* max(h_p_des, H_MAX_AP) for a slot with approach data, else h_p_des.
DescentTransitionAltitude(ac) ==
    IF ac.c_d2_ap # QI(0)
    THEN IF QLt(ac.h_p_des, QI(H_MAX_AP)) THEN QI(H_MAX_AP) ELSE ac.h_p_des
    ELSE ac.h_p_des

\* C21: in the descent regime of cal_thrust, at or below the descent
\* transition altitude, the thrust of a slot in any configuration is the
\* maximum climb thrust times one of the slot's descent coefficients
\* (low altitude, approach or landing).
C21_DescentThrustBelowTransition ==
    ( /\ call.fn = "cal_thrust"
      /\ result.returned
      /\ cal_thrust_condlist(call.vertical_mode, call.ap_speed_mode)[3]
      /\ ~cal_thrust_condlist(call.vertical_mode, call.ap_speed_mode)[1]
      /\ QLe(call.H_p, DescentTransitionAltitude(call.ac)) )
    => LET Thr == cal_max_climb_to_thrust(call.ac, call.H_p, call.V_tas,
                                          call.d_T)
       IN  result.value \in { QMul(call.ac.c_tdes_low, Thr),
                              QMul(call.ac.c_tdes_app, Thr),
                              QMul(call.ac.c_tdes_ld, Thr) }

\* C22: in the descent regime cal_thrust returns c_tdes_high times the
\* maximum climb thrust, whatever the configuration, when H_p is strictly
\* above the effective transition altitude (max(h_p_des, H_MAX_AP) for a
\* slot with approach data, h_p_des otherwise), and only then: at or below
\* it a finite non-zero thrust is never scaled by c_tdes_high.
C22_HighDescentThrustAboveTransition ==
    ( /\ call.fn = "cal_thrust"
      /\ result.returned
      /\ cal_thrust_condlist(call.vertical_mode, call.ap_speed_mode)[3]
      /\ ~cal_thrust_condlist(call.vertical_mode, call.ap_speed_mode)[1] )
    => LET Thr == cal_max_climb_to_thrust(call.ac, call.H_p, call.V_tas,
                                          call.d_T)
           high == QMul(call.ac.c_tdes_high, Thr)
       IN  /\ QLt(DescentTransitionAltitude(call.ac), call.H_p)
                => result.value = high
           /\ ( /\ ~QLt(DescentTransitionAltitude(call.ac), call.H_p)
                /\ IsFinite(Thr)
                /\ Thr # QI(0)
                /\ call.ac.c_tdes_high \notin { call.ac.c_tdes_low,
                                                call.ac.c_tdes_app,
                                                call.ac.c_tdes_ld } )
                => result.value # high

\* C22 witness: a slot with approach data descending in LANDING
\* configuration exactly at H_MAX_AP, above its h_p_des, got the landing
\* thrust, and one above H_MAX_AP got the high altitude thrust.
C22_Witness ==
    /\ call.fn = "cal_thrust"
    /\ result.returned
    /\ call.vertical_mode = "DESCENT"
    /\ call.configuration = "LANDING"
    /\ call.ac.c_d2_ap # QI(0)
    /\ QLt(call.ac.h_p_des, call.H_p)
    /\ call.H_p = QI(H_MAX_AP)
    /\ result.value # QI(0)
    /\ result.value = QMul(call.ac.c_tdes_ld,
                           cal_max_climb_to_thrust(call.ac, call.H_p,
                                                   call.V_tas, call.d_T))

\* C23: the temperature correction factor of the maximum climb thrust is
\* always within [0.6, 1]; it is exactly 1 when c_tc_5 <= 0 or
\* d_T <= c_tc_4; the corrected thrust is the standard atmosphere thrust
\* times the factor, so never below 60% of it in magnitude.
C23_TemperatureFactorBounded ==
    ( /\ call.fn = "cal_thrust"
      /\ result.returned
      /\ cal_thrust_condlist(call.vertical_mode, call.ap_speed_mode)[1] )
    => LET f == thr_max_climb_temperature_factor(call.ac, call.d_T)
           isa == thr_max_climb_isa(call.ac, call.H_p, call.V_tas)
           mag(x) == IF QLt(x, QI(0)) THEN QNeg(x) ELSE x
       IN  /\ QLe(Q(6, 10), f)
           /\ QLe(f, QI(1))
           /\ (QLe(call.ac.c_tc_5, QI(0)) \/ QLe(call.d_T, call.ac.c_tc_4))
                => f = QI(1)
           /\ result.value = QMul(isa, f)
           /\ IsFinite(isa)
                => /\ QLe(QMul(Q(6, 10), mag(isa)), mag(result.value))
                   /\ QLe(mag(result.value), mag(isa))

\* C23 witness: a climbing slot so far above the reference temperature
\* that the reduction is limited to 40% of a non-zero thrust.
C23_Witness ==
    /\ call.fn = "cal_thrust"
    /\ result.returned
    /\ call.vertical_mode = "CLIMB"
    /\ QLt(Q(4, 10), QMul(call.ac.c_tc_5, QSub(call.d_T, call.ac.c_tc_4)))
    /\ IsFinite(result.value)
    /\ result.value # QI(0)
    /\ result.value = QMul(Q(6, 10),
                           thr_max_climb_isa(call.ac, call.H_p, call.V_tas))

\* C24: a slot in APPROACH configuration whose c_d2_ap is 0, and a slot in
\* LANDING configuration whose c_d2_ld is 0, gets the drag of the CLEAN
\* configuration: the cruise coefficients c_d0_cr and c_d2_cr, without the
\* landing gear term.  The fall back is taken per slot and per
\* configuration.
C24_DragFallsBackToClean ==
    ( /\ call.fn = "cal_aerodynamic_drag"
      /\ result.returned
      /\ \/ call.configuration = "APPROACH" /\ call.ac.c_d2_ap = QI(0)
         \/ call.configuration = "LANDING" /\ call.ac.c_d2_ld = QI(0) )
    => LET cl == c_L(call.ac, call.V_tas, call.bank_angle, call.m,
                     call.rho)
           cruise == QAdd(call.ac.c_d0_cr,
                          QMul(call.ac.c_d2_cr, np_square(cl)))
       IN  /\ result.value =
                  cal_aerodynamic_drag(call.ac, call.V_tas, call.bank_angle,
                                       call.m, call.rho, "CLEAN",
                                       call.c_des_exp)
           /\ call.V_tas # QI(0)
                => result.value =
                       QMul(QDiv(QMul(QMul(QMul(cruise, call.rho),
                                           np_square(call.V_tas)),
                                      call.ac.S),
                                 QI(2)),
                            call.c_des_exp)

\* C24 witness: a moving slot in LANDING configuration without landing
\* data, but with approach data and a landing gear coefficient, got a
\* finite non-zero drag.
C24_Witness ==
    /\ call.fn = "cal_aerodynamic_drag"
    /\ result.returned
    /\ call.configuration = "LANDING"
    /\ call.ac.c_d2_ld = QI(0)
    /\ call.ac.c_d2_ap # QI(0)
    /\ call.ac.c_d0_ldg # QI(0)
    /\ call.V_tas # QI(0)
    /\ call.m # QI(0)
    /\ IsFinite(result.value)
    /\ result.value # QI(0)

\* C25: for a piston aircraft the fuel burn returned by cal_fuel_burn does
\* not depend on the thrust nor on the true airspeed, in any flight
\* phase: every other thrust and airspeed gives the value returned, which
\* is built from c_f1, c_f3 and c_fcr alone.
C25_PistonFuelIgnoresThrustAndSpeed ==
    ( /\ call.fn = "cal_fuel_burn"
      /\ result.returned
      /\ call.ac.engine_type = PISTON )
    => /\ \A other \in FuelCalls :
              ( /\ other.ac = call.ac
                /\ other.flight_phase = call.flight_phase
                /\ other.alt = call.alt )
              => result.value = cal_fuel_burn(other.ac, other.flight_phase,
                                              other.tas, other.thrust,
                                              other.alt)
       /\ result.value \in { QDiv(call.ac.c_f1, QI(60000)),
                              QDiv(QMul(call.ac.c_f1, call.ac.c_fcr),
                                   QI(60000)),
                              QDiv(call.ac.c_f3, QI(60000)),
                              call.ac.c_f3 }

\* C25 witness: a cruising piston aircraft at non-zero thrust and speed
\* burns c_f1 * c_fcr / 60000.
C25_Witness ==
    /\ call.fn = "cal_fuel_burn"
    /\ result.returned
    /\ call.ac.engine_type = PISTON
    /\ call.flight_phase = "CRUISE"
    /\ call.thrust # QI(0)
    /\ call.tas # QI(0)
    /\ result.value = QDiv(QMul(call.ac.c_f1, call.ac.c_fcr), QI(60000))
    /\ result.value # QI(0)

\* C26: cal_energy_share_factor returns 0.3 for ACCELERATE in CLIMB and
\* for DECELERATE in DESCENT, and 1.7 for ACCELERATE in DESCENT and for
\* DECELERATE in CLIMB, whatever the altitude, temperature and Mach
\* number; for each of the four speed modes exactly one regime applies and
\* its value is the one returned.
C26_EnergyShareByMode ==
    (call.fn = "cal_energy_share_factor" /\ result.returned) =>
        LET cond == cal_energy_share_factor_condlist(call.ap_speed_mode)
            choice == cal_energy_share_factor_choicelist(
                          call.H_p, call.T, call.d_T, call.M,
                          call.vertical_mode)
        IN  /\ ( \/ ( /\ call.ap_speed_mode = "ACCELERATE"
                      /\ call.vertical_mode = "CLIMB" )
                 \/ ( /\ call.ap_speed_mode = "DECELERATE"
                      /\ call.vertical_mode = "DESCENT" ) )
                  => result.value = Q(3, 10)
            /\ ( \/ ( /\ call.ap_speed_mode = "ACCELERATE"
                      /\ call.vertical_mode = "DESCENT" )
                 \/ ( /\ call.ap_speed_mode = "DECELERATE"
                      /\ call.vertical_mode = "CLIMB" ) )
                  => result.value = Q(17, 10)
            /\ Cardinality({k \in 1..4 : cond[k]}) = 1
            /\ \A k \in 1..4 : cond[k] => result.value = choice[k]

\* C26 witness: a slot that decelerates in a climb above the tropopause at
\* a Mach number other than 0 got 1.7.
C26_Witness ==
    /\ call.fn = "cal_energy_share_factor"
    /\ result.returned
    /\ call.ap_speed_mode = "DECELERATE"
    /\ call.vertical_mode = "CLIMB"
    /\ QLt(QI(H_P_TROP), call.H_p)
    /\ call.M # QI(0)
    /\ result.value = Q(17, 10)

\* C27: for every slot in LEVEL the rate of climb returned by cal_vs_accel
\* in BADA mode is exactly 0, for every speed mode and whether the drag
\* is below or above the maximum cruise thrust.
C27_LevelFlightHasNoRocd ==
    ( /\ call.fn = "cal_vs_accel"
      /\ result.returned
      /\ call.traffic.vertical_mode = "LEVEL" )
    => result.value.rocd = QI(0)

\* C30: cal_tem_thrust applied to the rate of climb that cal_tem_rocd
\* computed from a thrust Thr returns Thr, for the same T, d_T, m, D,
\* f_M # 0 and V_tas # 0 and any reduced power coefficient.
C30_ThrustInvertsRocd ==
    ( /\ call.fn = "cal_tem_thrust"
      /\ result.returned
      /\ call.f_M # QI(0)
      /\ call.V_tas # QI(0) )
    => result.value = call.Thr

\* C29: when all per-aircraft arrays have length N, del_aircraft(index)
\* with index >= N fails with an error and leaves drag, thrust, esf and
\* every Bada array unchanged in length and contents.
C29_DelOutOfRangeFails ==
    last.op = "del_aircraft" =>
        LET N == Len(before.drag)
        IN  (last.index >= N /\ FleetOf(before, N))
            => /\ err = "IndexError"
               /\ Snapshot = before
               /\ FleetOf(Snapshot, N)

\* C29 witness: del_aircraft(N) failed on a fleet of N >= 1 slots that
\* had been ticked, and the fleet is as it was.
C29_Witness ==
    /\ last.op = "del_aircraft"
    /\ \E N \in 1..MaxFleet : FleetOf(before, N) /\ last.index = N
    /\ err = "IndexError"
    /\ before.drag[1] # 0
    /\ drag = before.drag
    /\ bada = before.bada

\* The three schedule rows of slot i (1-based row) hold zeros only.
ZeroSchedules(arrays, i) ==
    \A name \in Schedules :
        \A j \in 1..Len(arrays[name][i]) : arrays[name][i][j] = QI(0)

\* C28: from the add_aircraft that creates a slot until the first
\* init_procedure_speed for that slot its three schedule rows are zero and
\* get_procedure_speed returns 0 for it at every altitude and flight
\* phase: add_aircraft appends zero rows; a step that adds a slot,
\* initialises another slot or looks speeds up keeps zero rows zero; and
\* every lookup in zero rows gives 0.
C28_ZeroScheduleUntilInit ==
    /\ [] ( ( last.op = "add_aircraft" /\ err = "none" )
              => ZeroSchedules(bada, Len(bada["climb_schedule"])) )
    /\ [] ( \A i \in 1..BadaLen :
              ZeroSchedules(bada, i) =>
                /\ \A H_p \in {0, 499, 500, 999, 1000, 1500, 3000, 6000,
                                10000, 14000, 29999, 30000, 40000},
                      k \in 1..Len(FlightPhases) :
                      get_procedure_speed_of(SlotSchedules(bada, i), H_p,
                                             30000, FlightPhases[k],
                                             QI(0)) = QI(0)
                /\ last.op = "get_procedure_speed" => ret.value[i] = QI(0) )
    /\ [][ \A i \in 1..BadaLen :
              ( /\ ZeroSchedules(bada, i)
                /\ \/ last'.op \in {"add_aircraft", "get_procedure_speed"}
                   \/ ( /\ last'.op = "init_procedure_speed"
                        /\ last'.n # i - 1 ) )
              => ( i <= Len(bada'["climb_schedule"])
                   /\ ZeroSchedules(bada', i) ) ]_vars

\* C28 witness: in a fleet of two, slot 0 has been initialised and the
\* speeds were looked up right after: slot 1, added and never
\* initialised, got 0 and slot 0 a speed.
C28_Witness ==
    /\ last.op = "get_procedure_speed"
    /\ last.prev_op = "init_procedure_speed"
    /\ BadaLen = 2
    /\ ~ZeroSchedules(bada, 1)
    /\ ZeroSchedules(bada, 2)
    /\ ret.value[1] # QI(0)
    /\ ret.value[2] = QI(0)

====
